---- MODULE Spec2Model ----
(***************************************************************************)
(* Verification model of gr-dvbs2rx (igorauad/gr-dvbs2rx).                 *)
(*                                                                         *)
(* Three parts, each with its own specification:                           *)
(*   SpecParams : python/dvbs2rx/params.py and defs.py (parameter helpers) *)
(*   SpecBB     : the BBFRAME Deheader driven by the stream generators of  *)
(*                python/dvbs2rx/qa_bbdeheader_bb.py                        *)
(*   SpecPL     : the PL Frame Synchronizer driven by the stream           *)
(*                generators of python/dvbs2rx/qa_plsync_cc.py             *)
(***************************************************************************)
EXTENDS Integers, Sequences, FiniteSets, TLC

VARIABLES
    call,       \* params: the call being made (function name and arguments)
    ret         \* params: what the call returned or raised

(***************************************************************************)
(* Generic helpers: Python integer operators on naturals.                  *)
(***************************************************************************)
RECURSIVE BitAnd(_, _)
BitAnd(a, b) ==
    IF a = 0 \/ b = 0 THEN 0
    ELSE ((a % 2) * (b % 2)) + 2 * BitAnd(a \div 2, b \div 2)

RECURSIVE BitOr(_, _)
BitOr(a, b) ==
    IF a = 0 THEN b
    ELSE IF b = 0 THEN a
    ELSE (IF (a % 2) + (b % 2) > 0 THEN 1 ELSE 0) + 2 * BitOr(a \div 2, b \div 2)

RECURSIVE Pow2(_)
Pow2(n) == IF n = 0 THEN 1 ELSE 2 * Pow2(n - 1)

ShiftLeft(a, n) == a * Pow2(n)

ShiftRight(a, n) == a \div Pow2(n)

SeqToSet(s) == {s[i] : i \in DOMAIN s}

(***************************************************************************)
(* python/dvbs2rx/defs.py                                                  *)
(***************************************************************************)
None == "None"

standards == {"DVB-T2", "DVB-S2", "DVB-S2X"}

frame_sizes == {"normal", "medium", "short"}

constellation_keys == {"QPSK", "16QAM", "64QAM", "256QAM", "8PSK"}

constellations ==
    [c \in constellation_keys |->
        CASE c = "QPSK" -> [def |-> "MOD_QPSK", standard |-> <<"DVB-T2", "DVB-S2">>]
          [] c = "16QAM" -> [def |-> "MOD_16QAM", standard |-> <<"DVB-T2">>]
          [] c = "64QAM" -> [def |-> "MOD_64QAM", standard |-> <<"DVB-T2">>]
          [] c = "256QAM" -> [def |-> "MOD_256QAM", standard |-> <<"DVB-T2">>]
          [] c = "8PSK" -> [def |-> "MOD_8PSK", standard |-> <<"DVB-S2">>]]

rolloff_keys == {"0.35", "0.25", "0.2", "0.15", "0.1", "0.05"}

rolloffs ==
    [r \in rolloff_keys |->
        CASE r = "0.35" -> [def |-> "RO_0_35", standard |-> <<"DVB-S2", "DVB-S2X">>]
          [] r = "0.25" -> [def |-> "RO_0_25", standard |-> <<"DVB-S2", "DVB-S2X">>]
          [] r = "0.2" -> [def |-> "RO_0_20", standard |-> <<"DVB-S2", "DVB-S2X">>]
          [] r = "0.15" -> [def |-> "RO_0_15", standard |-> <<"DVB-S2X">>]
          [] r = "0.1" -> [def |-> "RO_0_10", standard |-> <<"DVB-S2X">>]
          [] r = "0.05" -> [def |-> "RO_0_05", standard |-> <<"DVB-S2X">>]]

ldpc_code_keys ==
    {"1/4", "1/3", "2/5", "1/2", "3/5", "2/3",
     "3/4", "4/5", "5/6", "8/9", "9/10", "2/9",
     "13/45", "9/20", "90/180", "96/180", "11/20", "100/180",
     "104/180", "26/45", "18/30", "28/45", "23/36", "116/180",
     "20/30", "124/180", "25/36", "128/180", "13/18", "132/180",
     "22/30", "135/180", "140/180", "7/9", "154/180", "1/5",
     "11/45", "4/15", "14/45", "7/15", "8/15", "32/45"}

ldpc_codes ==
    [code \in ldpc_code_keys |->
        CASE code = "1/4" ->
                [def |-> <<"C1_4">>, def_is_list |-> FALSE, frame |-> <<"normal", "short">>,
                 standard |-> <<"DVB-S2", "DVB-T2">>, vl_snr_kind |-> "absent", vl_snr_bool |-> FALSE,
                 vl_snr_list |-> <<>>]
          [] code = "1/3" ->
                [def |-> <<"C1_3", "C1_3", "C1_3_MEDIUM", "C1_3_VLSNR">>, def_is_list |-> TRUE, frame |-> <<"normal", "short", "medium", "short">>,
                 standard |-> <<"DVB-S2X", "DVB-S2", "DVB-T2">>, vl_snr_kind |-> "list", vl_snr_bool |-> FALSE,
                 vl_snr_list |-> <<FALSE, FALSE, TRUE, TRUE>>]
          [] code = "2/5" ->
                [def |-> <<"C2_5">>, def_is_list |-> FALSE, frame |-> <<"normal", "short">>,
                 standard |-> <<"DVB-S2", "DVB-T2">>, vl_snr_kind |-> "absent", vl_snr_bool |-> FALSE,
                 vl_snr_list |-> <<>>]
          [] code = "1/2" ->
                [def |-> <<"C1_2">>, def_is_list |-> FALSE, frame |-> <<"normal", "short">>,
                 standard |-> <<"DVB-S2", "DVB-T2">>, vl_snr_kind |-> "absent", vl_snr_bool |-> FALSE,
                 vl_snr_list |-> <<>>]
          [] code = "3/5" ->
                [def |-> <<"C3_5">>, def_is_list |-> FALSE, frame |-> <<"normal", "short">>,
                 standard |-> <<"DVB-S2", "DVB-T2">>, vl_snr_kind |-> "absent", vl_snr_bool |-> FALSE,
                 vl_snr_list |-> <<>>]
          [] code = "2/3" ->
                [def |-> <<"C2_3">>, def_is_list |-> FALSE, frame |-> <<"normal", "short">>,
                 standard |-> <<"DVB-S2", "DVB-T2">>, vl_snr_kind |-> "absent", vl_snr_bool |-> FALSE,
                 vl_snr_list |-> <<>>]
          [] code = "3/4" ->
                [def |-> <<"C3_4">>, def_is_list |-> FALSE, frame |-> <<"normal", "short">>,
                 standard |-> <<"DVB-S2", "DVB-T2">>, vl_snr_kind |-> "absent", vl_snr_bool |-> FALSE,
                 vl_snr_list |-> <<>>]
          [] code = "4/5" ->
                [def |-> <<"C4_5">>, def_is_list |-> FALSE, frame |-> <<"normal", "short">>,
                 standard |-> <<"DVB-S2", "DVB-T2">>, vl_snr_kind |-> "absent", vl_snr_bool |-> FALSE,
                 vl_snr_list |-> <<>>]
          [] code = "5/6" ->
                [def |-> <<"C5_6">>, def_is_list |-> FALSE, frame |-> <<"normal", "short">>,
                 standard |-> <<"DVB-S2", "DVB-T2">>, vl_snr_kind |-> "absent", vl_snr_bool |-> FALSE,
                 vl_snr_list |-> <<>>]
          [] code = "8/9" ->
                [def |-> <<"C8_9">>, def_is_list |-> FALSE, frame |-> <<"normal", "short">>,
                 standard |-> <<"DVB-S2">>, vl_snr_kind |-> "absent", vl_snr_bool |-> FALSE,
                 vl_snr_list |-> <<>>]
          [] code = "9/10" ->
                [def |-> <<"C9_10">>, def_is_list |-> FALSE, frame |-> <<"normal">>,
                 standard |-> <<"DVB-S2">>, vl_snr_kind |-> "absent", vl_snr_bool |-> FALSE,
                 vl_snr_list |-> <<>>]
          [] code = "2/9" ->
                [def |-> <<"C2_9_VLSNR">>, def_is_list |-> FALSE, frame |-> <<"normal">>,
                 standard |-> <<"DVB-S2X">>, vl_snr_kind |-> "bool", vl_snr_bool |-> TRUE,
                 vl_snr_list |-> <<>>]
          [] code = "13/45" ->
                [def |-> <<"C13_45">>, def_is_list |-> FALSE, frame |-> <<"normal">>,
                 standard |-> <<"DVB-S2X">>, vl_snr_kind |-> "absent", vl_snr_bool |-> FALSE,
                 vl_snr_list |-> <<>>]
          [] code = "9/20" ->
                [def |-> <<"C9_20">>, def_is_list |-> FALSE, frame |-> <<"normal">>,
                 standard |-> <<"DVB-S2X">>, vl_snr_kind |-> "absent", vl_snr_bool |-> FALSE,
                 vl_snr_list |-> <<>>]
          [] code = "90/180" ->
                [def |-> <<"C90_180">>, def_is_list |-> FALSE, frame |-> <<"normal">>,
                 standard |-> <<"DVB-S2X">>, vl_snr_kind |-> "absent", vl_snr_bool |-> FALSE,
                 vl_snr_list |-> <<>>]
          [] code = "96/180" ->
                [def |-> <<"C96_180">>, def_is_list |-> FALSE, frame |-> <<"normal">>,
                 standard |-> <<"DVB-S2X">>, vl_snr_kind |-> "absent", vl_snr_bool |-> FALSE,
                 vl_snr_list |-> <<>>]
          [] code = "11/20" ->
                [def |-> <<"C11_20">>, def_is_list |-> FALSE, frame |-> <<"normal">>,
                 standard |-> <<"DVB-S2X">>, vl_snr_kind |-> "absent", vl_snr_bool |-> FALSE,
                 vl_snr_list |-> <<>>]
          [] code = "100/180" ->
                [def |-> <<"C100_180">>, def_is_list |-> FALSE, frame |-> <<"normal">>,
                 standard |-> <<"DVB-S2X">>, vl_snr_kind |-> "absent", vl_snr_bool |-> FALSE,
                 vl_snr_list |-> <<>>]
          [] code = "104/180" ->
                [def |-> <<"C104_180">>, def_is_list |-> FALSE, frame |-> <<"normal">>,
                 standard |-> <<"DVB-S2X">>, vl_snr_kind |-> "absent", vl_snr_bool |-> FALSE,
                 vl_snr_list |-> <<>>]
          [] code = "26/45" ->
                [def |-> <<"C26_45">>, def_is_list |-> FALSE, frame |-> <<"normal", "short">>,
                 standard |-> <<"DVB-S2X">>, vl_snr_kind |-> "absent", vl_snr_bool |-> FALSE,
                 vl_snr_list |-> <<>>]
          [] code = "18/30" ->
                [def |-> <<"C18_30">>, def_is_list |-> FALSE, frame |-> <<"normal">>,
                 standard |-> <<"DVB-S2X">>, vl_snr_kind |-> "absent", vl_snr_bool |-> FALSE,
                 vl_snr_list |-> <<>>]
          [] code = "28/45" ->
                [def |-> <<"C28_45">>, def_is_list |-> FALSE, frame |-> <<"normal">>,
                 standard |-> <<"DVB-S2X">>, vl_snr_kind |-> "absent", vl_snr_bool |-> FALSE,
                 vl_snr_list |-> <<>>]
          [] code = "23/36" ->
                [def |-> <<"C23_36">>, def_is_list |-> FALSE, frame |-> <<"normal">>,
                 standard |-> <<"DVB-S2X">>, vl_snr_kind |-> "absent", vl_snr_bool |-> FALSE,
                 vl_snr_list |-> <<>>]
          [] code = "116/180" ->
                [def |-> <<"C116_180">>, def_is_list |-> FALSE, frame |-> <<"normal">>,
                 standard |-> <<"DVB-S2X">>, vl_snr_kind |-> "absent", vl_snr_bool |-> FALSE,
                 vl_snr_list |-> <<>>]
          [] code = "20/30" ->
                [def |-> <<"C20_30">>, def_is_list |-> FALSE, frame |-> <<"normal">>,
                 standard |-> <<"DVB-S2X">>, vl_snr_kind |-> "absent", vl_snr_bool |-> FALSE,
                 vl_snr_list |-> <<>>]
          [] code = "124/180" ->
                [def |-> <<"C124_180">>, def_is_list |-> FALSE, frame |-> <<"normal">>,
                 standard |-> <<"DVB-S2X">>, vl_snr_kind |-> "absent", vl_snr_bool |-> FALSE,
                 vl_snr_list |-> <<>>]
          [] code = "25/36" ->
                [def |-> <<"25/36">>, def_is_list |-> FALSE, frame |-> <<"normal">>,
                 standard |-> <<"DVB-S2X">>, vl_snr_kind |-> "absent", vl_snr_bool |-> FALSE,
                 vl_snr_list |-> <<>>]
          [] code = "128/180" ->
                [def |-> <<"C128_180">>, def_is_list |-> FALSE, frame |-> <<"normal">>,
                 standard |-> <<"DVB-S2X">>, vl_snr_kind |-> "absent", vl_snr_bool |-> FALSE,
                 vl_snr_list |-> <<>>]
          [] code = "13/18" ->
                [def |-> <<"C13_18">>, def_is_list |-> FALSE, frame |-> <<"normal">>,
                 standard |-> <<"DVB-S2X">>, vl_snr_kind |-> "absent", vl_snr_bool |-> FALSE,
                 vl_snr_list |-> <<>>]
          [] code = "132/180" ->
                [def |-> <<"C132_180">>, def_is_list |-> FALSE, frame |-> <<"normal">>,
                 standard |-> <<"DVB-S2X">>, vl_snr_kind |-> "absent", vl_snr_bool |-> FALSE,
                 vl_snr_list |-> <<>>]
          [] code = "22/30" ->
                [def |-> <<"C22_30">>, def_is_list |-> FALSE, frame |-> <<"normal">>,
                 standard |-> <<"DVB-S2X">>, vl_snr_kind |-> "absent", vl_snr_bool |-> FALSE,
                 vl_snr_list |-> <<>>]
          [] code = "135/180" ->
                [def |-> <<"C135_180">>, def_is_list |-> FALSE, frame |-> <<"normal">>,
                 standard |-> <<"DVB-S2X">>, vl_snr_kind |-> "absent", vl_snr_bool |-> FALSE,
                 vl_snr_list |-> <<>>]
          [] code = "140/180" ->
                [def |-> <<"C140_180">>, def_is_list |-> FALSE, frame |-> <<"normal">>,
                 standard |-> <<"DVB-S2X">>, vl_snr_kind |-> "absent", vl_snr_bool |-> FALSE,
                 vl_snr_list |-> <<>>]
          [] code = "7/9" ->
                [def |-> <<"C7_9">>, def_is_list |-> FALSE, frame |-> <<"normal">>,
                 standard |-> <<"DVB-S2X">>, vl_snr_kind |-> "absent", vl_snr_bool |-> FALSE,
                 vl_snr_list |-> <<>>]
          [] code = "154/180" ->
                [def |-> <<"C154_180">>, def_is_list |-> FALSE, frame |-> <<"normal">>,
                 standard |-> <<"DVB-S2X">>, vl_snr_kind |-> "absent", vl_snr_bool |-> FALSE,
                 vl_snr_list |-> <<>>]
          [] code = "1/5" ->
                [def |-> <<"C1_5_MEDIUM", "C1_5_VLSNR_SF2", "C1_5_VLSNR">>, def_is_list |-> TRUE, frame |-> <<"medium", "short", "short">>,
                 standard |-> <<"DVB-S2X">>, vl_snr_kind |-> "bool", vl_snr_bool |-> TRUE,
                 vl_snr_list |-> <<>>]
          [] code = "11/45" ->
                [def |-> <<"C11_45", "C11_45_MEDIUM", "C11_45_VLSNR_SF2">>, def_is_list |-> TRUE, frame |-> <<"short", "medium", "short">>,
                 standard |-> <<"DVB-S2X">>, vl_snr_kind |-> "list", vl_snr_bool |-> FALSE,
                 vl_snr_list |-> <<FALSE, TRUE, TRUE>>]
          [] code = "4/15" ->
                [def |-> <<"C4_15", "C4_15_VLSNR">>, def_is_list |-> TRUE, frame |-> <<"short", "short">>,
                 standard |-> <<"DVB-S2X">>, vl_snr_kind |-> "list", vl_snr_bool |-> FALSE,
                 vl_snr_list |-> <<FALSE, TRUE>>]
          [] code = "14/45" ->
                [def |-> <<"C14_45">>, def_is_list |-> FALSE, frame |-> <<"short">>,
                 standard |-> <<"DVB-S2X">>, vl_snr_kind |-> "absent", vl_snr_bool |-> FALSE,
                 vl_snr_list |-> <<>>]
          [] code = "7/15" ->
                [def |-> <<"C7_15">>, def_is_list |-> FALSE, frame |-> <<"short">>,
                 standard |-> <<"DVB-S2X">>, vl_snr_kind |-> "absent", vl_snr_bool |-> FALSE,
                 vl_snr_list |-> <<>>]
          [] code = "8/15" ->
                [def |-> <<"C8_15">>, def_is_list |-> FALSE, frame |-> <<"short">>,
                 standard |-> <<"DVB-S2X">>, vl_snr_kind |-> "absent", vl_snr_bool |-> FALSE,
                 vl_snr_list |-> <<>>]
          [] code = "32/45" ->
                [def |-> <<"C32_45">>, def_is_list |-> FALSE, frame |-> <<"short">>,
                 standard |-> <<"DVB-S2X">>, vl_snr_kind |-> "absent", vl_snr_bool |-> FALSE,
                 vl_snr_list |-> <<>>]]

dvbs2_modcod_keys ==
    {"qpsk1/4", "qpsk1/3", "qpsk2/5", "qpsk1/2", "qpsk3/5", "qpsk2/3",
     "qpsk3/4", "qpsk4/5", "qpsk5/6", "qpsk8/9", "qpsk9/10", "8psk3/5",
     "8psk2/3", "8psk3/4", "8psk5/6", "8psk8/9", "8psk9/10", "16apsk2/3",
     "16apsk3/4", "16apsk4/5", "16apsk5/6", "16apsk8/9", "16apsk9/10", "32apsk3/4",
     "32apsk4/5", "32apsk5/6", "32apsk8/9", "32apsk9/10"}

dvbs2_modcods ==
    [k \in dvbs2_modcod_keys |->
        CASE k = "qpsk1/4" -> 1
          [] k = "qpsk1/3" -> 2
          [] k = "qpsk2/5" -> 3
          [] k = "qpsk1/2" -> 4
          [] k = "qpsk3/5" -> 5
          [] k = "qpsk2/3" -> 6
          [] k = "qpsk3/4" -> 7
          [] k = "qpsk4/5" -> 8
          [] k = "qpsk5/6" -> 9
          [] k = "qpsk8/9" -> 10
          [] k = "qpsk9/10" -> 11
          [] k = "8psk3/5" -> 12
          [] k = "8psk2/3" -> 13
          [] k = "8psk3/4" -> 14
          [] k = "8psk5/6" -> 15
          [] k = "8psk8/9" -> 16
          [] k = "8psk9/10" -> 17
          [] k = "16apsk2/3" -> 18
          [] k = "16apsk3/4" -> 19
          [] k = "16apsk4/5" -> 20
          [] k = "16apsk5/6" -> 21
          [] k = "16apsk8/9" -> 22
          [] k = "16apsk9/10" -> 23
          [] k = "32apsk3/4" -> 24
          [] k = "32apsk4/5" -> 25
          [] k = "32apsk5/6" -> 26
          [] k = "32apsk8/9" -> 27
          [] k = "32apsk9/10" -> 28]

(***************************************************************************)
(* python/dvbs2rx/params.py                                                *)
(*                                                                         *)
(* Python values are modelled by strings: None is "None", the Booleans are *)
(* "True" and "False", the integer 1 is "1", floats are their literals.    *)
(***************************************************************************)

\* str.upper() on the strings the model passes as arguments
str_upper(s) ==
    CASE s \in {"qpsk", "Qpsk", "QPSK"} -> "QPSK"
      [] s \in {"8psk", "8Psk", "8PSK"} -> "8PSK"
      [] s \in {"16qam", "16QAM"} -> "16QAM"
      [] s \in {"16apsk", "16APSK"} -> "16APSK"
      [] s \in {"32apsk", "32APSK"} -> "32APSK"
      [] s \in {"pam", "PAM"} -> "PAM"
      [] s \in {"dvb-s2", "Dvb-S2", "DVB-S2"} -> "DVB-S2"
      [] s \in {"dvb-s2x", "DVB-S2x", "DVB-S2X"} -> "DVB-S2X"
      [] s \in {"dvb-t2", "DVB-T2"} -> "DVB-T2"
      [] s \in {"dvb-c", "DVB-C"} -> "DVB-C"
      [] s \in {"normal", "Normal", "NORMAL"} -> "NORMAL"
      [] s \in {"medium", "MEDIUM"} -> "MEDIUM"
      [] s \in {"short", "Short", "SHORT"} -> "SHORT"
      [] s \in {"large", "LARGE"} -> "LARGE"
      [] OTHER -> s

\* str.lower() on the strings the model passes as arguments
str_lower(s) ==
    CASE s \in {"qpsk", "Qpsk", "QPSK"} -> "qpsk"
      [] s \in {"8psk", "8Psk", "8PSK"} -> "8psk"
      [] s \in {"16qam", "16QAM"} -> "16qam"
      [] s \in {"16apsk", "16APSK"} -> "16apsk"
      [] s \in {"32apsk", "32APSK"} -> "32apsk"
      [] s \in {"pam", "PAM"} -> "pam"
      [] s \in {"dvb-s2", "Dvb-S2", "DVB-S2"} -> "dvb-s2"
      [] s \in {"dvb-s2x", "DVB-S2x", "DVB-S2X"} -> "dvb-s2x"
      [] s \in {"dvb-t2", "DVB-T2"} -> "dvb-t2"
      [] s \in {"dvb-c", "DVB-C"} -> "dvb-c"
      [] s \in {"normal", "Normal", "NORMAL"} -> "normal"
      [] s \in {"medium", "MEDIUM"} -> "medium"
      [] s \in {"short", "Short", "SHORT"} -> "short"
      [] s \in {"large", "LARGE"} -> "large"
      [] OTHER -> s

\* _adjust_case: <<standard, frame_size, constellation>> in the adopted case
_adjust_case(standard, frame_size, constellation) ==
    << IF standard # None THEN str_upper(standard) ELSE standard,
       IF frame_size # None THEN str_lower(frame_size) ELSE frame_size,
       IF constellation # None THEN str_upper(constellation) ELSE constellation >>

\* isinstance(pilots, bool)
isinstance_bool(v) == v \in {"True", "False"}

\* the integer value of a Python bool or int used in an integer expression
int_of(v) == CASE v = "True" -> 1 [] v = "False" -> 0 [] v = "1" -> 1 [] OTHER -> 0

\* truth value of defs.ldpc_codes[code]['vl-snr'] (a bool, or a list, which is
\* true when it is not empty)
vl_snr_truthy(code) ==
    CASE ldpc_codes[code].vl_snr_kind = "bool" -> ldpc_codes[code].vl_snr_bool
      [] ldpc_codes[code].vl_snr_kind = "list" -> Len(ldpc_codes[code].vl_snr_list) > 0
      [] OTHER -> FALSE

filtered_constellations(standard) ==
    {key \in constellation_keys : standard \in SeqToSet(constellations[key].standard)}

filtered_codes_any_frame(standard, frame_size) ==
    {key \in ldpc_code_keys : standard \in SeqToSet(ldpc_codes[key].standard)}

filtered_codes(standard, frame_size) ==
    {key \in ldpc_code_keys :
        /\ standard \in SeqToSet(ldpc_codes[key].standard)
        /\ frame_size \in SeqToSet(ldpc_codes[key].frame)}

filtered_rolloffs(standard) ==
    {key \in rolloff_keys : standard \in SeqToSet(rolloffs[key].standard)}

validate(standard0, frame_size0, code, constellation0, rolloff, pilots, vl_snr) ==
    LET adj == _adjust_case(standard0, frame_size0, constellation0)
        standard == adj[1]
        frame_size == adj[2]
        constellation == adj[3]
    IN  IF standard \notin standards THEN FALSE
        ELSE IF frame_size \notin frame_sizes THEN FALSE
        ELSE IF constellation # None
                /\ constellation \notin filtered_constellations(standard) THEN FALSE
        ELSE IF code \notin filtered_codes(standard, frame_size) THEN FALSE
        ELSE IF constellation # None /\ standard = "DVB-S2"
                /\ (str_lower(constellation) \o code) \notin dvbs2_modcod_keys THEN FALSE
        ELSE IF vl_snr /\ standard # "DVB-S2X" THEN FALSE
        ELSE IF vl_snr /\ (ldpc_codes[code].vl_snr_kind = "absent"
                           \/ ~vl_snr_truthy(code)) THEN FALSE
        ELSE IF rolloff # None /\ rolloff \notin filtered_rolloffs(standard) THEN FALSE
        ELSE IF pilots # None /\ ~isinstance_bool(pilots) THEN FALSE
        ELSE TRUE

\* What a call gives back: a value, or an exception
NoInfo == [n_mod |-> 0, n_slots |-> 0, n_pilots |-> 0, plframe_len |-> 0,
           xfecframe_len |-> 0]

Returns(v) == [kind |-> "return", exc |-> "", pls |-> v, info |-> NoInfo]

ReturnsInfo(i) == [kind |-> "return", exc |-> "", pls |-> 0, info |-> i]

Raises(e) == [kind |-> "raise", exc |-> e, pls |-> 0, info |-> NoInfo]

\* short_frame = frame_size == 'short'
pls_short_frame(frame_size) == IF frame_size = "short" THEN 1 ELSE 0

dvbs2_pls(constellation, code, frame_size, pilots) ==
    LET valid == validate("DVB-S2", str_lower(frame_size), code,
                          str_upper(constellation), None, pilots, FALSE)
    IN  IF ~valid THEN Raises("ValueError")
        ELSE IF pilots = None THEN Raises("TypeError")
        ELSE
            LET modcod == dvbs2_modcods[str_lower(constellation) \o code]
                short_frame == pls_short_frame(frame_size)
                pls == BitOr(BitOr(ShiftLeft(modcod, 2), ShiftLeft(short_frame, 1)),
                             int_of(pilots))
            IN  IF pls < 0 \/ pls >= 128 THEN Raises("ValueError")
                ELSE Returns(pls)

\* n_pilots = ((n_slots - 1) >> 4) if has_pilots else 0
pl_info_n_pilots_shift0(n_slots, has_pilots) ==
    IF has_pilots # 0 THEN ShiftRight(n_slots, 4) ELSE 0

pl_info_n_pilots(n_slots, has_pilots) ==
    IF has_pilots # 0 THEN ShiftRight(n_slots - 1, 4) ELSE 0

pl_info(constellation, code, frame_size, pilots) ==
    LET r == dvbs2_pls(constellation, code, frame_size, pilots)
    IN  IF r.kind = "raise" THEN r
        ELSE
            LET plsc == r.pls
                modcod == ShiftRight(plsc, 2)
                short_fecframe == BitAnd(plsc, 2)
                dummy_frame == (modcod = 0)
                has_pilots == BitAnd(BitAnd(plsc, 1), IF dummy_frame THEN 0 ELSE 1)
                n_mod == CASE modcod >= 1 /\ modcod <= 11 -> 2
                           [] modcod >= 12 /\ modcod <= 17 -> 3
                           [] modcod >= 18 /\ modcod <= 23 -> 4
                           [] modcod >= 24 /\ modcod <= 28 -> 5
                           [] OTHER -> 0
                n_slots0 == CASE modcod >= 1 /\ modcod <= 11 -> 360
                              [] modcod >= 12 /\ modcod <= 17 -> 240
                              [] modcod >= 18 /\ modcod <= 23 -> 180
                              [] modcod >= 24 /\ modcod <= 28 -> 144
                              [] OTHER -> 36
                n_slots == IF short_fecframe # 0 /\ ~dummy_frame
                           THEN ShiftRight(n_slots0, 2) ELSE n_slots0
                n_pilots == pl_info_n_pilots(n_slots, has_pilots)
                plframe_len == ((n_slots + 1) * 90) + (36 * n_pilots)
                xfecframe_len == n_slots * 90
            IN  ReturnsInfo([n_mod |-> n_mod, n_slots |-> n_slots,
                             n_pilots |-> n_pilots, plframe_len |-> plframe_len,
                             xfecframe_len |-> xfecframe_len])

(***************************************************************************)
(* Specification of the parameter helpers: a caller makes one call at a    *)
(* time with arguments drawn from the sets below and then takes the result.*)
(***************************************************************************)
ConstellationArgs == {"QPSK", "qpsk", "8PSK", "8psk", "16APSK", "32APSK", "pam"}

CodeArgs == ldpc_code_keys \cup {"0/0"}

FrameSizeArgs == {"normal", "short", "medium", "SHORT", "Normal", "large"}

PilotsArgs == {"True", "False", "None", "1"}

NoCall == [fn |-> "none", constellation |-> None, code |-> None,
           frame_size |-> None, pilots |-> None]

NoRet == [kind |-> "none", exc |-> "", pls |-> 0, info |-> NoInfo]

InitParams ==
    /\ call = NoCall
    /\ ret = NoRet

CallDvbs2Pls ==
    /\ call.fn = "none"
    /\ \E c \in ConstellationArgs, code \in CodeArgs, fs \in FrameSizeArgs,
          p \in PilotsArgs :
        /\ call' = [fn |-> "dvbs2_pls", constellation |-> c, code |-> code,
                    frame_size |-> fs, pilots |-> p]
        /\ ret' = dvbs2_pls(c, code, fs, p)

CallPlInfo ==
    /\ call.fn = "none"
    /\ \E c \in ConstellationArgs, code \in CodeArgs, fs \in FrameSizeArgs,
          p \in PilotsArgs :
        /\ call' = [fn |-> "pl_info", constellation |-> c, code |-> code,
                    frame_size |-> fs, pilots |-> p]
        /\ ret' = pl_info(c, code, fs, p)

\* the caller takes the result; the helpers keep no state between calls
TakeResult ==
    /\ call.fn # "none"
    /\ call' = NoCall
    /\ ret' = NoRet

params_vars == <<call, ret>>

(***************************************************************************)
(* Claims on the parameter helpers                                         *)
(***************************************************************************)

\* The tuple is valid for DVB-S2: validate accepts it and pilots is given
ValidForDvbs2(c, code, fs, p) ==
    /\ p # None
    /\ validate("DVB-S2", fs, code, c, None, p, FALSE)

\* The frame size a PLS value decodes to (bit 1 is the short-frame flag)
DecodedFrameSize(pls) == IF (pls \div 2) % 2 = 1 THEN "short" ELSE "normal"

\* C9: for every {constellation, code, frame size, pilots} valid for DVB-S2,
\* dvbs2_pls returns (MODCOD << 2) | (short_frame << 1) | pilots within 0..127,
\* MODCOD being the table entry of constellation+code; decoding the value
\* gives back MODCOD, the short-frame flag and the pilots flag of the tuple,
\* so the frame size of the tuple is the one the value decodes to.
C9_PlsRoundTrip ==
    (call.fn = "dvbs2_pls"
     /\ ValidForDvbs2(call.constellation, call.code, call.frame_size, call.pilots))
    => /\ ret.kind = "return"
       /\ ret.pls \in 0..127
       /\ LET modcod == dvbs2_modcods[str_lower(call.constellation) \o call.code]
              short == IF str_lower(call.frame_size) = "short" THEN 1 ELSE 0
          IN  /\ ret.pls = (modcod * 4) + (short * 2) + int_of(call.pilots)
              /\ ret.pls \div 4 = modcod
              /\ (ret.pls \div 2) % 2 = short
              /\ ret.pls % 2 = int_of(call.pilots)
              /\ DecodedFrameSize(ret.pls) = str_lower(call.frame_size)

\* C10: for every parameter set pl_info accepts, xfecframe_len = n_slots * 90,
\* n_pilots = floor((n_slots - 1) / 16) with pilots and 0 without, and
\* plframe_len = (n_slots + 1) * 90 + 36 * n_pilots; QPSK 1/4 normal with
\* pilots gives 360 slots, 22 pilot blocks, 32400 and 33282 symbols.
C10_PlInfoGeometry ==
    (call.fn = "pl_info" /\ ret.kind = "return")
    => /\ ret.info.xfecframe_len = ret.info.n_slots * 90
       /\ ret.info.n_pilots =
            (IF call.pilots = "True" THEN (ret.info.n_slots - 1) \div 16 ELSE 0)
       /\ ret.info.plframe_len =
            ((ret.info.n_slots + 1) * 90) + (36 * ret.info.n_pilots)
       /\ (/\ str_upper(call.constellation) = "QPSK"
           /\ call.code = "1/4"
           /\ call.frame_size = "normal"
           /\ call.pilots = "True")
          => /\ ret.info.n_slots = 360
             /\ ret.info.n_pilots = 22
             /\ ret.info.xfecframe_len = 32400
             /\ ret.info.plframe_len = 33282

\* C10 witness: pl_info has returned the geometry of 8PSK 3/5 normal frames
\* with pilots (240 slots, 14 pilot blocks)
C10_Witness ==
    /\ call.fn = "pl_info"
    /\ call.constellation = "8PSK"
    /\ call.code = "3/5"
    /\ call.frame_size = "normal"
    /\ call.pilots = "True"
    /\ ret.kind = "return"
    /\ ret.info.n_slots = 240
    /\ ret.info.n_pilots = 14
    /\ ret.info.plframe_len = 22194

\* The geometry of the modulation-order table for a MODCOD: <<n_mod, n_slots>>
\* of a normal frame
ModcodTable(modcod) ==
    CASE modcod \in 1..11 -> <<2, 360>>
      [] modcod \in 12..17 -> <<3, 240>>
      [] modcod \in 18..23 -> <<4, 180>>
      [] modcod \in 24..28 -> <<5, 144>>

\* C11: for every DVB-S2 MODCOD 1..28 of the MODCOD table, pl_info called with
\* that MODCOD's constellation and code rate (and a frame size listed for the
\* code rate) returns n_mod = 2, 3, 4, 5 and n_slots = 360, 240, 180, 144 for
\* QPSK, 8PSK, 16APSK, 32APSK normal frames and a quarter of those slots for
\* short frames.
C11_ModcodGeometry ==
    (/\ call.fn = "pl_info"
     /\ (str_lower(call.constellation) \o call.code) \in dvbs2_modcod_keys
     /\ call.frame_size \in {"normal", "short"}
     /\ call.frame_size \in SeqToSet(ldpc_codes[call.code].frame)
     /\ call.pilots \in {"True", "False"})
    => LET modcod == dvbs2_modcods[str_lower(call.constellation) \o call.code]
       IN  /\ modcod \in 1..28
           /\ ret.kind = "return"
           /\ ret.info.n_mod = ModcodTable(modcod)[1]
           /\ ret.info.n_slots =
                (IF call.frame_size = "short" THEN ModcodTable(modcod)[2] \div 4
                 ELSE ModcodTable(modcod)[2])

(***************************************************************************)
(* python/dvbs2rx/params.py: pls_filter                                    *)
(*                                                                         *)
(* A Python integer below 2^64 is kept as four 16-bit limbs, least         *)
(* significant first, so that 1 << 63 is representable.                    *)
(***************************************************************************)
MaxPlsArgs == 3     \* largest number of arguments of a pls_filter call

LIMB_BITS == 16

N_LIMBS == 4

\* the integer 0
WordZero == [k \in 1..N_LIMBS |-> 0]

\* 1 << n
WordOneShl(n) ==
    [k \in 1..N_LIMBS |-> IF (n \div LIMB_BITS) + 1 = k THEN Pow2(n % LIMB_BITS) ELSE 0]

\* a | b
WordOr(a, b) == [k \in 1..N_LIMBS |-> BitOr(a[k], b[k])]

\* if (pls < 0 or pls >= 128)
pls_out_of_range_gt(pls) == pls < 0 \/ pls > 128

pls_out_of_range(pls) == pls < 0 \/ pls >= 128

\* one turn of the loop of pls_filter on a valid pls: acc is <<lo, hi>>
pls_filter_step_assign(acc, pls) ==
    IF pls >= 64 THEN <<acc[1], WordOneShl(pls - 64)>>
    ELSE <<WordOneShl(pls), acc[2]>>

pls_filter_step(acc, pls) ==
    IF pls >= 64 THEN <<acc[1], WordOr(acc[2], WordOneShl(pls - 64))>>
    ELSE <<WordOr(acc[1], WordOneShl(pls)), acc[2]>>

ReturnsMask(m) == [kind |-> "return", exc |-> "", mask |-> m]

\* for pls in pls_tuple, from argument i on
RECURSIVE pls_filter_loop(_, _, _)
pls_filter_loop(pls_tuple, i, acc) ==
    IF i > Len(pls_tuple) THEN ReturnsMask(acc)
    ELSE IF pls_out_of_range(pls_tuple[i]) THEN Raises("ValueError")
    ELSE pls_filter_loop(pls_tuple, i + 1, pls_filter_step(acc, pls_tuple[i]))

pls_filter(pls_tuple) == pls_filter_loop(pls_tuple, 1, <<WordZero, WordZero>>)

\* arguments of the pls_filter calls
PlsArgs == {-1, 0, 1, 15, 16, 63, 64, 100, 127, 128}

PlsTuples == UNION {[1..n -> PlsArgs] : n \in 0..MaxPlsArgs}

CallPlsFilter ==
    /\ call.fn = "none"
    /\ \E t \in PlsTuples :
        /\ call' = [fn |-> "pls_filter", pls_tuple |-> t]
        /\ ret' = pls_filter(t)

(***************************************************************************)
(* python/dvbs2rx/params.py: validate as called by its users, translate    *)
(***************************************************************************)
\* defs.standards, defs.frame_sizes and defs.pilots: key -> definition name
standards_def(s) ==
    CASE s = "DVB-T2" -> "STANDARD_DVBT2"
      [] s = "DVB-S2" -> "STANDARD_DVBS2"
      [] s = "DVB-S2X" -> "STANDARD_DVBS2"

frame_sizes_def(f) ==
    CASE f = "normal" -> "FECFRAME_NORMAL"
      [] f = "medium" -> "FECFRAME_MEDIUM"
      [] f = "short" -> "FECFRAME_SHORT"

pilots_def(b) == IF b THEN "PILOTS_ON" ELSE "PILOTS_OFF"

ReturnsValue(v) == [kind |-> "return", exc |-> "", value |-> v]

\* eval("dvbs2rx." + name): the definition of that name, or SyntaxError when
\* the text is not an attribute reference
NotAnIdentifier == {"25/36"}

eval_dvbs2rx(name) ==
    IF name \in NotAnIdentifier THEN Raises("SyntaxError") ELSE ReturnsValue(name)

\* the search of translate for the entry of a list-valued code definition:
\* the index found, 0 when none is found, -1 when subscripting fails
RECURSIVE translate_find(_, _, _, _)
translate_find(code, frame_size, vl_snr, idx) ==
    IF idx > Len(ldpc_codes[code].def) THEN 0
    ELSE IF idx > Len(ldpc_codes[code].frame) THEN -1
    ELSE IF frame_size # ldpc_codes[code].frame[idx]
         THEN translate_find(code, frame_size, vl_snr, idx + 1)
    ELSE IF ldpc_codes[code].vl_snr_kind # "list" THEN -1
    ELSE IF idx > Len(ldpc_codes[code].vl_snr_list) THEN -1
    ELSE IF vl_snr = ldpc_codes[code].vl_snr_list[idx] THEN idx
    ELSE translate_find(code, frame_size, vl_snr, idx + 1)

\* t_code of translate
translate_code(code, frame_size, vl_snr) ==
    IF ldpc_codes[code].def_is_list
    THEN IF ldpc_codes[code].vl_snr_kind = "absent" THEN Raises("KeyError")
         ELSE LET idx == translate_find(code, frame_size, vl_snr, 1)
              IN  CASE idx = -1 ->
                         Raises(IF ldpc_codes[code].vl_snr_kind = "bool"
                                THEN "TypeError" ELSE "IndexError")
                    [] idx = 0 -> Raises("AssertionError")
                    [] OTHER -> eval_dvbs2rx(ldpc_codes[code].def[idx])
    ELSE eval_dvbs2rx(ldpc_codes[code].def[1])

translate(standard0, frame_size0, code, constellation0, rolloff, pilots, vl_snr) ==
    LET adj == _adjust_case(standard0, frame_size0, constellation0)
        standard == adj[1]
        frame_size == adj[2]
        constellation == adj[3]
        valid == validate(standard, frame_size, code, constellation, rolloff,
                          pilots, FALSE)
    IN  IF ~valid THEN Raises("ValueError")
        ELSE
            LET t_standard == eval_dvbs2rx(standards_def(standard))
                t_frame_size == eval_dvbs2rx(frame_sizes_def(frame_size))
                t_code == translate_code(code, frame_size, vl_snr)
                res3 == <<t_standard.value, t_frame_size.value, t_code.value>>
                res4 == IF constellation # None
                        THEN Append(res3, constellations[constellation].def)
                        ELSE res3
                res5 == IF rolloff # None THEN Append(res4, rolloffs[rolloff].def)
                        ELSE res4
                res == IF pilots # None THEN Append(res5, pilots_def(pilots = "True"))
                       ELSE res5
            IN  IF t_code.kind = "raise" THEN t_code ELSE ReturnsValue(res)

\* arguments of the validate and translate calls
StandardArgs == {"DVB-S2", "dvb-s2", "DVB-S2X", "DVB-T2", "DVB-C"}

ValFrameSizeArgs == {"normal", "short", "medium", "large"}

ValCodeArgs == {"1/4", "1/3", "2/5", "1/2", "3/5", "2/3", "3/4", "4/5", "5/6",
                "8/9", "9/10", "0/0", "25/36", "1/5"}

ValConstellationArgs == {"None", "qpsk", "8psk", "16QAM", "pam"}

RolloffArgs == {"None", "0.2", "0.19", "0.15"}

ValPilotsArgs == {"None", "True", "1"}

CallValidate ==
    /\ call.fn = "none"
    /\ \E s \in StandardArgs, fs \in ValFrameSizeArgs, code \in ValCodeArgs,
          c \in ValConstellationArgs, r \in RolloffArgs, p \in ValPilotsArgs :
        /\ call' = [fn |-> "validate", standard |-> s, frame_size |-> fs,
                    code |-> code, constellation |-> c, rolloff |-> r, pilots |-> p]
        /\ ret' = ReturnsValue(validate(s, fs, code, c, r, p, FALSE))

CallTranslate ==
    /\ call.fn = "none"
    /\ \E s \in StandardArgs, fs \in ValFrameSizeArgs, code \in ValCodeArgs,
          c \in ValConstellationArgs, r \in RolloffArgs, p \in ValPilotsArgs :
        /\ call' = [fn |-> "translate", standard |-> s, frame_size |-> fs,
                    code |-> code, constellation |-> c, rolloff |-> r, pilots |-> p]
        /\ ret' = translate(s, fs, code, c, r, p, FALSE)

(***************************************************************************)
(* Claims on pls_filter                                                    *)
(***************************************************************************)

\* bit p of a word
WordBit(w, p) == (w[(p \div LIMB_BITS) + 1] \div Pow2(p % LIMB_BITS)) % 2

\* the word of the integer v < 2^16
WordOf(v) == [k \in 1..N_LIMBS |-> IF k = 1 THEN v ELSE 0]

\* the arguments in reverse order
Reversed(t) == [i \in 1..Len(t) |-> t[Len(t) + 1 - i]]

\* the arguments with each one given twice
Doubled(t) == t \o t

\* C12: for any tuple of PLS values all within 0..127, pls_filter returns a
\* pair (lo, hi) of 64-bit words in which bit p of lo is set exactly when p
\* (0..63) is among the arguments and bit p - 64 of hi exactly when p (64..127)
\* is among the arguments; so the result depends only on the set of arguments:
\* the same arguments in reverse order, or each repeated, give the same pair,
\* and no arguments give (0, 0).
C12_PlsFilterMask ==
    (call.fn = "pls_filter" /\ \A i \in DOMAIN call.pls_tuple : call.pls_tuple[i] \in 0..127)
    => /\ ret.kind = "return"
       /\ \A h \in 1..2 : \A k \in 1..N_LIMBS : ret.mask[h][k] \in 0..(Pow2(LIMB_BITS) - 1)
       /\ \A p \in 0..63 :
            WordBit(ret.mask[1], p) = (IF p \in SeqToSet(call.pls_tuple) THEN 1 ELSE 0)
       /\ \A p \in 64..127 :
            WordBit(ret.mask[2], p - 64) = (IF p \in SeqToSet(call.pls_tuple) THEN 1 ELSE 0)
       /\ pls_filter(Reversed(call.pls_tuple)) = ret
       /\ pls_filter(Doubled(call.pls_tuple)) = ret
       /\ call.pls_tuple = <<>> => ret.mask = <<WordZero, WordZero>>

\* C12 witness: pls_filter(64, 1, 0), arguments in both halves given in
\* descending order, has returned (3, 1)
C12_Witness ==
    /\ call.fn = "pls_filter"
    /\ call.pls_tuple = <<64, 1, 0>>
    /\ ret.kind = "return"
    /\ ret.mask = <<WordOf(3), WordOf(1)>>

\* C13: pls_filter raises ValueError, and returns no mask, whenever any of its
\* arguments is below 0 or above 127, whatever the position of that argument
\* among valid ones.
C13_PlsFilterRaises ==
    (call.fn = "pls_filter" /\ \E i \in DOMAIN call.pls_tuple : call.pls_tuple[i] \notin 0..127)
    => /\ ret.kind = "raise"
       /\ ret.exc = "ValueError"
       /\ "mask" \notin DOMAIN ret

\* C13 witness: pls_filter(0, 127, 128), the bad argument after two valid ones,
\* has raised ValueError
C13_Witness ==
    /\ call.fn = "pls_filter"
    /\ call.pls_tuple = <<0, 127, 128>>
    /\ ret = Raises("ValueError")

(***************************************************************************)
(* Claims on validate and translate                                        *)
(***************************************************************************)

\* The conditions under which a parameter set is valid, read from the tables
\* of defs.py (names compared in the adopted letter case)
ValidParams(standard0, frame_size0, code, constellation0, rolloff, pilots) ==
    LET standard == str_upper(standard0)
        frame_size == str_lower(frame_size0)
        constellation == IF constellation0 = None THEN None
                         ELSE str_upper(constellation0)
    IN  /\ standard \in standards
        /\ frame_size \in frame_sizes
        /\ code \in ldpc_code_keys
        /\ standard \in SeqToSet(ldpc_codes[code].standard)
        /\ frame_size \in SeqToSet(ldpc_codes[code].frame)
        /\ constellation # None =>
            /\ constellation \in constellation_keys
            /\ standard \in SeqToSet(constellations[constellation].standard)
            /\ standard = "DVB-S2" =>
                (str_lower(constellation) \o code) \in dvbs2_modcod_keys
        /\ rolloff # None =>
            /\ rolloff \in rolloff_keys
            /\ standard \in SeqToSet(rolloffs[rolloff].standard)
        /\ pilots # None => pilots \in {"True", "False"}

\* the 15 MODCODs that the tests accept for normal and for short frames
TestModcods ==
    ({"qpsk"} \X {"1/4", "1/3", "2/5", "1/2", "3/5", "2/3", "3/4", "4/5", "5/6", "8/9"})
    \cup ({"8psk"} \X {"3/5", "2/3", "3/4", "5/6", "8/9"})

\* C14: validate returns True exactly when the standard and the frame size
\* are known, the code rate is listed for that standard and frame size, the
\* constellation (when given) is listed for the standard and, for DVB-S2,
\* constellation+code is a DVB-S2 MODCOD, the roll-off (when given) is listed
\* for the standard, and pilots (when given) is a Boolean; otherwise it returns
\* False without raising. For DVB-S2 it rejects frame size 'large', code
\* '0/0', constellation 'pam', roll-off 0.19, pilots = 1, code 9/10 with short
\* frames and 8PSK with 1/4, 1/3, 2/5, 1/2 or 4/5, and accepts the 15
\* QPSK/8PSK MODCODs of the test for normal and for short frames.
C14_ValidateExact ==
    call.fn = "validate"
    => /\ ret.kind = "return"
       /\ ret.value = ValidParams(call.standard, call.frame_size, call.code,
                                  call.constellation, call.rolloff, call.pilots)
       /\ call.standard = "DVB-S2" =>
            /\ (\/ call.frame_size = "large"
                \/ call.code = "0/0"
                \/ call.constellation = "pam"
                \/ call.rolloff = "0.19"
                \/ call.pilots = "1"
                \/ (call.code = "9/10" /\ call.frame_size = "short")
                \/ (call.constellation = "8psk"
                    /\ call.code \in {"1/4", "1/3", "2/5", "1/2", "4/5"}))
               => ret.value = FALSE
            /\ (/\ <<call.constellation, call.code>> \in TestModcods
                /\ call.frame_size \in {"normal", "short"}
                /\ call.rolloff \in {None, "0.2"}
                /\ call.pilots \in {None, "True"})
               => ret.value = TRUE

\* C14 witness: validate('DVB-S2', 'short', '9/10', 'qpsk') has returned False
\* (the code rate is not listed for short frames)
C14_Witness ==
    /\ call.fn = "validate"
    /\ call.standard = "DVB-S2"
    /\ call.frame_size = "short"
    /\ call.code = "9/10"
    /\ call.constellation = "qpsk"
    /\ call.rolloff = None
    /\ call.pilots = None
    /\ ret = ReturnsValue(FALSE)

\* C15: translate raises ValueError whenever validate rejects its parameters,
\* and otherwise returns a tuple whose first three elements are the standard,
\* frame-size and code-rate definitions, followed in this order by the
\* constellation, roll-off and pilots definitions of exactly those optional
\* arguments that were provided (3 to 6 elements).
C15_TranslateTuple ==
    call.fn = "translate"
    => IF ~validate(call.standard, call.frame_size, call.code, call.constellation,
                    call.rolloff, call.pilots, FALSE)
       THEN ret = Raises("ValueError")
       ELSE /\ ret.kind = "return"
            /\ Len(ret.value) \in 3..6
            /\ ret.value[1] = standards_def(str_upper(call.standard))
            /\ ret.value[2] = frame_sizes_def(str_lower(call.frame_size))
            /\ ret.value[3] \in SeqToSet(ldpc_codes[call.code].def)
            /\ SubSeq(ret.value, 4, Len(ret.value)) =
                 (IF call.constellation # None
                  THEN <<constellations[str_upper(call.constellation)].def>> ELSE <<>>)
                 \o (IF call.rolloff # None THEN <<rolloffs[call.rolloff].def>> ELSE <<>>)
                 \o (IF call.pilots # None THEN <<pilots_def(call.pilots = "True")>>
                     ELSE <<>>)
(***************************************************************************)
(* python/dvbs2rx/params.py: validate and translate called with vl_snr     *)
(***************************************************************************)
VlStandardArgs == {"DVB-S2", "DVB-S2X", "dvb-s2x", "DVB-T2"}

VlFrameSizeArgs == {"normal", "medium", "short", "Short"}

\* the code rates with several definitions, and two with a single one
VlCodeArgs == {"1/4", "1/3", "1/5", "11/45", "4/15", "14/45"}

VlConstellationArgs == {"None", "qpsk"}

CallValidateVlSnr ==
    /\ call.fn = "none"
    /\ \E s \in VlStandardArgs, fs \in VlFrameSizeArgs, code \in VlCodeArgs,
          c \in VlConstellationArgs, v \in BOOLEAN :
        /\ call' = [fn |-> "validate", standard |-> s, frame_size |-> fs,
                    code |-> code, constellation |-> c, vl_snr |-> v]
        /\ ret' = ReturnsValue(validate(s, fs, code, c, None, None, v))

CallTranslateVlSnr ==
    /\ call.fn = "none"
    /\ \E s \in VlStandardArgs, fs \in VlFrameSizeArgs, code \in VlCodeArgs,
          c \in VlConstellationArgs, v \in BOOLEAN :
        /\ call' = [fn |-> "translate", standard |-> s, frame_size |-> fs,
                    code |-> code, constellation |-> c, vl_snr |-> v]
        /\ ret' = translate(s, fs, code, c, None, None, v)

(***************************************************************************)
(* Claims on the VL-SNR mode                                               *)
(***************************************************************************)
\* C22: for every parameter set that validate accepts, with vl_snr False or
\* True, the search of translate through a code rate with several
\* definitions finds an entry for the frame size and the VL-SNR mode: the
\* assertion on 'found' does not fail and translate returns a result.
C22_TranslateFinds ==
    (/\ call.fn = "translate"
     /\ ldpc_codes[call.code].def_is_list
     /\ validate(call.standard, call.frame_size, call.code, call.constellation,
                 None, None, call.vl_snr))
    => /\ ret.kind = "return"
       /\ ret.value[3] \in SeqToSet(ldpc_codes[call.code].def)


\* the call made, with its constellation and frame size in other letters
SameCallInCase(c, fs) ==
    IF call.fn = "dvbs2_pls"
    THEN dvbs2_pls(c, call.code, fs, call.pilots)
    ELSE pl_info(c, call.code, fs, call.pilots)

\* C29: the result of dvbs2_pls and of pl_info, value or error, does not
\* depend on the letter case of the constellation and frame size arguments:
\* the same call with both in upper case, or both in lower case, gives the
\* result of the call made.
C29_CaseIndependent ==
    (call.fn \in {"dvbs2_pls", "pl_info"})
    => /\ ret = SameCallInCase(str_upper(call.constellation), str_upper(call.frame_size))
       /\ ret = SameCallInCase(str_lower(call.constellation), str_lower(call.frame_size))

\* the code rate has a VL-SNR definition for the frame size: some entry of
\* defs.ldpc_codes[code] pairs the frame size with VL-SNR mode True, a
\* 'vl-snr' that is the Boolean True standing for every entry
HasVlSnrDef(code, frame_size) ==
    LET c == ldpc_codes[code]
    IN  \E idx \in 1..Len(c.frame) :
            /\ c.frame[idx] = frame_size
            /\ CASE c.vl_snr_kind = "bool" -> c.vl_snr_bool
                  [] c.vl_snr_kind = "list" ->
                        idx <= Len(c.vl_snr_list) /\ c.vl_snr_list[idx]
                  [] OTHER -> FALSE

\* C30: validate called with vl_snr = True returns True only if the standard
\* is DVB-S2X and the code rate has a VL-SNR definition for the frame size.
C30_VlSnrOnlyWithDef ==
    (call.fn = "validate" /\ call.vl_snr /\ ret.kind = "return" /\ ret.value)
    => /\ str_upper(call.standard) = "DVB-S2X"
       /\ call.code \in DOMAIN ldpc_codes
       /\ HasVlSnrDef(call.code, str_lower(call.frame_size))

(***************************************************************************)
(* python/dvbs2rx/qa_bbdeheader_bb.py: the generators of the UP stream and *)
(* of the BBFRAME stream that drive the BBFRAME Deheader.                  *)
(*                                                                         *)
(* Bytes are integers 0..255, byte strings are sequences of bytes. The UP  *)
(* length and the DATAFIELD length are scaled down (188 and 1991 bytes in  *)
(* the source); the BBHEADER keeps its 10 bytes and its field layout.      *)
(***************************************************************************)
UPL_BYTES == 8          \* user packet length in bytes (scaled)

MaxDflBytes == 10       \* (kbch - 80) / 8, bytes per DATAFIELD (scaled)

MaxFrames == 4          \* largest number of BBFRAMEs in a generated stream

MaxSeed == 1            \* seeds of the random payload generator: 0..MaxSeed

BBHEADER_LEN == 10

SYNC_BYTE == 71         \* 0x47

DVBS2_GEN_POLY == <<1, 1, 1, 0, 1, 0, 1, 0, 1>>   \* x^8+x^7+x^6+x^4+x^2+1

kbch == (BBHEADER_LEN * 8) + (MaxDflBytes * 8)

RECURSIVE BitXor(_, _)
BitXor(a, b) ==
    IF a = 0 THEN b
    ELSE IF b = 0 THEN a
    ELSE ((a + b) % 2) + 2 * BitXor(a \div 2, b \div 2)

Zeros(n) == [i \in 1..n |-> 0]

\* Python slice s[a:b] of a sequence (0-based, b excluded, clamped)
Slice(s, a, b) ==
    LET lo == IF a < 0 THEN 0 ELSE a
        hi == IF b > Len(s) THEN Len(s) ELSE b
    IN  IF hi <= lo THEN <<>> ELSE SubSeq(s, lo + 1, hi)

CeilDiv(a, b) == (a + b - 1) \div b

\* np.unpackbits of one byte, most significant bit first
ByteToBits(b) == [i \in 1..8 |-> (b \div Pow2(8 - i)) % 2]

RECURSIVE unpackbits(_)
unpackbits(bytes) ==
    IF bytes = <<>> THEN <<>>
    ELSE ByteToBits(Head(bytes)) \o unpackbits(Tail(bytes))

\* np.packbits of 8 bits
packbits(bits) ==
    bits[1] * 128 + bits[2] * 64 + bits[3] * 32 + bits[4] * 16
    + bits[5] * 8 + bits[6] * 4 + bits[7] * 2 + bits[8]

\* the division loop of crc8: for i in range(len(in_bits))
\* dividend[i:i + len(gen_poly)] = np.bitwise_xor(dividend[i:i + len(gen_poly)], gen_poly)
xor_at(dividend, gen_poly, i) ==
    SubSeq(dividend, 1, i - 1)
    \o [j \in 1..Len(gen_poly) |-> (dividend[i + j - 1] + gen_poly[j]) % 2]
    \o SubSeq(dividend, i + Len(gen_poly), Len(dividend))

\* one turn of the loop of crc8: if (dividend[i]): dividend[i:i + L] ^= gen_poly
crc8_step(dividend, gen_poly, i) ==
    IF dividend[i] = 1 THEN xor_at(dividend, gen_poly, i) ELSE dividend

\* the division loop of crc8, for i in range(len(in_bits)), from bit i on,
\* eight turns (the bits of one input byte) at a time
RECURSIVE crc8_divide(_, _, _)
crc8_divide(dividend, gen_poly, i) ==
    IF i > Len(dividend) - (Len(gen_poly) - 1) THEN dividend
    ELSE LET d1 == crc8_step(dividend, gen_poly, i)
             d2 == crc8_step(d1, gen_poly, i + 1)
             d3 == crc8_step(d2, gen_poly, i + 2)
             d4 == crc8_step(d3, gen_poly, i + 3)
             d5 == crc8_step(d4, gen_poly, i + 4)
             d6 == crc8_step(d5, gen_poly, i + 5)
             d7 == crc8_step(d6, gen_poly, i + 6)
             d8 == crc8_step(d7, gen_poly, i + 7)
         IN  crc8_divide(d8, gen_poly, i + 8)

crc8_poly7(in_bytes) ==
    LET gen_poly == <<1, 0, 0, 0, 0, 0, 1, 1, 1>>
        L == Len(gen_poly)
        in_bits == unpackbits(in_bytes)
        dividend == in_bits \o Zeros(L - 1)
        r == crc8_divide(dividend, gen_poly, 1)
    IN  packbits(SubSeq(r, Len(in_bits) + 1, Len(r)))

\* crc8(in_bytes): the CRC-8 as one byte
crc8(in_bytes) ==
    LET L == Len(DVBS2_GEN_POLY)
        in_bits == unpackbits(in_bytes)
        dividend == in_bits \o Zeros(L - 1)
        r == crc8_divide(dividend, DVBS2_GEN_POLY, 1)
    IN  packbits(SubSeq(r, Len(in_bits) + 1, Len(r)))

\* np.random.bytes: the j-th random byte of UP i under a seed; the values
\* include the sync byte, zero (the padding value) and 0xFF
RandomByteValues == <<165, 71, 0, 255, 18>>

random_byte(seed, i, j) ==
    RandomByteValues[((seed + (3 * i) + (2 * j)) % Len(RandomByteValues)) + 1]

\* gen_up: SYNC_BYTE + bytes(3) + payload; i is the number of the UP
gen_up(seed, i) ==
    <<SYNC_BYTE>> \o Zeros(3) \o [j \in 1..(UPL_BYTES - 4) |-> random_byte(seed, i, j)]

RECURSIVE gen_up_stream_from(_, _, _)
gen_up_stream_from(seed, i, n_ups) ==
    IF i >= n_ups THEN <<>>
    ELSE gen_up(seed, i) \o gen_up_stream_from(seed, i + 1, n_ups)

gen_up_stream(seed, n_ups) == gen_up_stream_from(seed, 0, n_ups)

\* the loop of replace_sync_with_crc from UP i on; crc is -1 for None
RECURSIVE replace_sync_loop(_, _, _)
replace_sync_loop(stream, i, crc) ==
    IF i >= Len(stream) \div UPL_BYTES THEN stream
    ELSE LET up_start == i * UPL_BYTES
             up_end == (i + 1) * UPL_BYTES
             s1 == IF crc # -1 THEN [stream EXCEPT ![up_start + 1] = crc] ELSE stream
         IN  replace_sync_loop(s1, i + 1, crc8(Slice(s1, up_start + 1, up_end)))

replace_sync_with_crc(original_stream) ==
    replace_sync_loop(original_stream, 0, -1)

\* struct.pack of an unsigned 16-bit field, big endian
PackU16(v) == <<(v \div 256) % 256, v % 256>>

gen_bbheader_crc8(bbheader_no_crc) == crc8(bbheader_no_crc)

gen_bbheader_full_dfl(kbch_, syncd, dfl0) ==
    LET bbheader_no_crc == <<242, 0>> \o PackU16(UPL_BYTES * 8) \o PackU16(kbch_ - 80)
                           \o <<SYNC_BYTE>> \o PackU16(syncd)
    IN  bbheader_no_crc \o <<crc8(bbheader_no_crc)>>

gen_bbheader_aligned(kbch_, syncd, dfl0) ==
    LET dfl == IF dfl0 = -1 THEN kbch_ - 80 ELSE dfl0
        bbheader_no_crc == <<242, 0>> \o PackU16(UPL_BYTES * 8) \o PackU16(dfl)
                           \o <<SYNC_BYTE>> \o PackU16((syncd \div 8) * 8)
    IN  bbheader_no_crc \o <<crc8(bbheader_no_crc)>>

\* gen_bbheader(kbch, syncd, dfl); dfl = -1 stands for None
gen_bbheader(kbch_, syncd, dfl0) ==
    LET ts_gs == 3
        sis_mis == 1
        ccm_acm == 1
        issyi == 0
        npd == 0
        ro == 2
        matype_1 == (ts_gs * 64) + (sis_mis * 32) + (ccm_acm * 16) + (issyi * 8)
                    + (npd * 4) + ro
        matype_2 == 0
        upl == UPL_BYTES * 8
        dfl == IF dfl0 = -1 THEN kbch_ - 80 ELSE dfl0
        bbheader_no_crc == <<matype_1, matype_2>> \o PackU16(upl) \o PackU16(dfl)
                           \o <<SYNC_BYTE>> \o PackU16(syncd)
    IN  bbheader_no_crc \o <<gen_bbheader_crc8(bbheader_no_crc)>>

\* syncd of the next BBFRAME in gen_bbframe_stream
next_syncd_partial(offset, dfl_bytes) ==
    LET partial_up_len == (offset + dfl_bytes) % UPL_BYTES
    IN  partial_up_len * 8

next_syncd(offset, dfl_bytes) ==
    LET partial_up_len == (offset + dfl_bytes) % UPL_BYTES
        remaining_up_len == UPL_BYTES - partial_up_len
    IN  remaining_up_len * 8

\* the loop of gen_bbframe_stream: the frames from number i on, as a
\* sequence of BBFRAMEs (the source concatenates them into one stream)
RECURSIVE gen_bbframe_loop(_, _, _, _, _, _)
gen_bbframe_loop(kbch_, n_frames, modified_up_stream, i, offset, syncd) ==
    IF i >= n_frames THEN <<>>
    ELSE LET dfl_bytes == (kbch_ - 80) \div 8
             frame == gen_bbheader(kbch_, syncd, -1)
                      \o Slice(modified_up_stream, offset, offset + dfl_bytes)
         IN  <<frame>> \o gen_bbframe_loop(kbch_, n_frames, modified_up_stream, i + 1,
                                           offset + dfl_bytes,
                                           next_syncd(offset, dfl_bytes))

gen_bbframe_stream(kbch_, n_frames, up_stream_, syncd) ==
    gen_bbframe_loop(kbch_, n_frames, replace_sync_with_crc(up_stream_), 0, 0, syncd)

\* _set_stream_len_params
dfl_bytes_of(kbch_) == (kbch_ - 80) \div 8

n_ups_of(kbch_, n_bbframes) == CeilDiv(n_bbframes * dfl_bytes_of(kbch_), UPL_BYTES)

\* test_padded_dfl: the stream of BBFRAMEs with zero-padded DATAFIELDs
padded_dfl_bytes(kbch_) == (dfl_bytes_of(kbch_) \div UPL_BYTES) * UPL_BYTES

RECURSIVE gen_padded_loop(_, _, _, _, _)
gen_padded_loop(kbch_, n_bbframes, modified_up_stream, i, offset) ==
    IF i >= n_bbframes THEN <<>>
    ELSE LET dfl_bytes == padded_dfl_bytes(kbch_)
             pad_bytes == dfl_bytes_of(kbch_) - dfl_bytes
             frame == gen_bbheader(kbch_, 0, dfl_bytes * 8)
                      \o Slice(modified_up_stream, offset, offset + dfl_bytes)
                      \o Zeros(pad_bytes)
         IN  <<frame>> \o gen_padded_loop(kbch_, n_bbframes, modified_up_stream, i + 1,
                                          offset + dfl_bytes)

gen_padded_stream(kbch_, n_bbframes, up_stream_) ==
    gen_padded_loop(kbch_, n_bbframes, replace_sync_with_crc(up_stream_), 0, 0)

xor_field_none(frames, f, off, error) == frames

\* corrupt_stream[off + j] ^= error[j] on the 2-byte field at byte offset off
\* of frame f (0-based), error being a 16-bit value
xor_field(frames, f, off, error) ==
    [frames EXCEPT ![f + 1] =
        [@ EXCEPT ![off + 1] = BitXor(@, (error \div 256) % 256),
                  ![off + 2] = BitXor(@, error % 256)]]

\* corrupt_stream[9] ^= 255 on frame f
corrupt_crc(frames, f) ==
    [frames EXCEPT ![f + 1] = [@ EXCEPT ![BBHEADER_LEN] = BitXor(@, 255)]]

drop_frame_none(frames, i_drop) == frames

\* bbframe_stream[:i_drop * bbframe_bytes] + bbframe_stream[(i_drop + 1) * bbframe_bytes:]
drop_frame(frames, i_drop) ==
    SubSeq(frames, 1, i_drop) \o SubSeq(frames, i_drop + 2, Len(frames))

\* the BBHEADER of frame f generated again with other SYNCD and DFL fields
\* (CRC-valid), the DATAFIELD kept
reheader(frames, f, syncd, dfl) ==
    [frames EXCEPT ![f + 1] =
        gen_bbheader(kbch, syncd, dfl) \o SubSeq(@, BBHEADER_LEN + 1, Len(@))]

GenPolyInt == 469       \* int(DVBS2_GEN_POLY, 2) = 0x1D5

(***************************************************************************)
(* The BBFRAME Deheader (bbdeheader_bb).  It works on one BBFRAME of       *)
(* kbch bits at a time and keeps the UP in progress between BBFRAMEs.      *)
(***************************************************************************)
VARIABLES
    bb_scn,        \* the test scenario: kind, number of frames, faulty frame, seed
    up_stream,     \* the original UP stream of the scenario
    bb_in,         \* the BBFRAMEs not yet consumed by the Deheader
    bb_synced,     \* Deheader: a UP boundary is known
    bb_packet,     \* Deheader: the bytes of the UP in progress (sync restored)
    bb_pending,    \* Deheader: a complete UP whose CRC-8 byte has not come yet
    bb_out,        \* the bytes output by the Deheader
    bb_discarded   \* the number of BBFRAMEs the Deheader has discarded

\* bitwise exclusive or of two bytes
Xor8(a, b) ==
    LET x(w) == (((a \div w) + (b \div w)) % 2) * w
    IN  x(1) + x(2) + x(4) + x(8) + x(16) + x(32) + x(64) + x(128)

\* CRC-8 shift register with generator x^8+x^7+x^6+x^4+x^2+1 (0xD5), one bit
deheader_crc_bit(crc, bit) ==
    IF ((crc \div 128) + bit) % 2 = 1
    THEN Xor8((crc * 2) % 256, 213)
    ELSE (crc * 2) % 256

\* the 8-bit shift register after the bytes from number i on
RECURSIVE deheader_crc_from(_, _, _)
deheader_crc_from(crc, bytes, i) ==
    IF crc > 255 \/ i > Len(bytes) THEN crc
    ELSE LET b == ByteToBits(bytes[i])
             c1 == deheader_crc_bit(crc, b[1])
             c2 == deheader_crc_bit(c1, b[2])
             c3 == deheader_crc_bit(c2, b[3])
             c4 == deheader_crc_bit(c3, b[4])
             c5 == deheader_crc_bit(c4, b[5])
             c6 == deheader_crc_bit(c5, b[6])
             c7 == deheader_crc_bit(c6, b[7])
             c8 == deheader_crc_bit(c7, b[8])
         IN  deheader_crc_from(c8, bytes, i + 1)

deheader_crc8(bytes) == deheader_crc_from(0, bytes, 1)

\* the fields of the 10-byte BBHEADER
parse_bbheader(frame) ==
    [matype_1 |-> frame[1],
     matype_2 |-> frame[2],
     upl |-> (frame[3] * 256) + frame[4],
     dfl |-> (frame[5] * 256) + frame[6],
     sync |-> frame[7],
     syncd |-> (frame[8] * 256) + frame[9],
     crc |-> frame[10]]

\* steps 1 to 3 of the processing of a BBFRAME, and the byte alignment of SYNCD
bbheader_valid(frame) ==
    LET h == parse_bbheader(frame)
    IN  /\ deheader_crc8(SubSeq(frame, 1, BBHEADER_LEN - 1)) = h.crc
        /\ h.dfl <= kbch - 80
        /\ h.dfl % 8 = 0
        /\ h.syncd <= h.dfl
        /\ h.syncd % 8 = 0

\* the SYNCD the next consecutive BBFRAME has to carry
expected_syncd(packet) ==
    IF packet = <<>> THEN 0 ELSE (UPL_BYTES - Len(packet)) * 8

up_crc_unchecked(pending, b) == pending

\* the UP that waits for its CRC-8 is output when the byte received in the
\* next sync position is the CRC-8 of the bytes after its own sync byte
up_crc_checked(pending, b) ==
    IF pending # <<>> /\ deheader_crc8(Tail(pending)) = b THEN pending ELSE <<>>

deheader_byte_keep_crc(st, b) ==
    IF st.packet = <<>>
    THEN [packet |-> <<b>>, pending |-> <<>>,
          out |-> st.out \o up_crc_checked(st.pending, b)]
    ELSE IF Len(st.packet) + 1 = UPL_BYTES
         THEN [packet |-> <<>>, pending |-> st.packet \o <<b>>, out |-> st.out]
         ELSE [packet |-> st.packet \o <<b>>, pending |-> st.pending, out |-> st.out]

deheader_byte_no_wait(st, b) ==
    IF st.packet = <<>>
    THEN [packet |-> <<SYNC_BYTE>>, pending |-> <<>>, out |-> st.out]
    ELSE IF Len(st.packet) + 1 = UPL_BYTES
         THEN [packet |-> <<>>, pending |-> <<>>, out |-> st.out \o st.packet \o <<b>>]
         ELSE [packet |-> st.packet \o <<b>>, pending |-> st.pending, out |-> st.out]

\* one DATAFIELD byte: the byte in the sync position of a UP carries the
\* CRC-8 of the UP before it, which is checked and output then; the sync
\* byte is restored
deheader_byte(st, b) ==
    IF st.packet = <<>>
    THEN [packet |-> <<SYNC_BYTE>>, pending |-> <<>>,
          out |-> st.out \o up_crc_checked(st.pending, b)]
    ELSE IF Len(st.packet) + 1 = UPL_BYTES
         THEN [packet |-> <<>>, pending |-> st.packet \o <<b>>, out |-> st.out]
         ELSE [packet |-> st.packet \o <<b>>, pending |-> st.pending, out |-> st.out]

RECURSIVE deheader_bytes(_, _)
deheader_bytes(st, data) ==
    IF data = <<>> THEN st
    ELSE deheader_bytes(deheader_byte(st, Head(data)), Tail(data))

\* steps 4 and 5 on a valid BBFRAME: resynchronize at SYNCD when no UP
\* boundary is known or when SYNCD shows a discontinuity, then take the
\* DATAFIELD bytes (DFL bits, the padding left out)
deheader_deframe(synced, st, frame) ==
    LET h == parse_bbheader(frame)
        resync == ~synced \/ h.syncd # expected_syncd(st.packet)
        st0 == IF resync THEN [packet |-> <<>>, pending |-> <<>>, out |-> st.out]
               ELSE st
        first == IF resync THEN h.syncd \div 8 ELSE 0
        data == Slice(frame, BBHEADER_LEN + first, BBHEADER_LEN + (h.dfl \div 8))
    IN  deheader_bytes(st0, data)

DeheaderState == [packet |-> bb_packet, pending |-> bb_pending, out |-> bb_out]

\* the scenarios of the tests: the kind of fault, the number of BBFRAMEs
\* generated, the number of the faulty BBFRAME and the payload seed
FaultKinds == {"crc_error", "xor_dfl", "xor_dfl_x4", "xor_syncd", "dfl_gt",
               "dfl_mod8", "syncd_gt", "syncd_mod8", "drop"}

BBScenarios ==
    {[kind |-> "clean", n |-> n, f |-> 0, seed |-> s] :
        n \in 1..MaxFrames, s \in 0..MaxSeed}
    \cup {[kind |-> "padded", n |-> n, f |-> 0, seed |-> s] :
        n \in 1..MaxFrames, s \in 0..MaxSeed}
    \cup {sc \in [kind : FaultKinds \cup {"up_error"}, n : 1..MaxFrames,
                  f : 0..(MaxFrames - 1), seed : 0..MaxSeed] : sc.f < sc.n}

\* a byte error in the DATAFIELD of frame f, at a place that moves with f;
\* the BBHEADER is left valid
up_error_offset(f) == (3 * f) % dfl_bytes_of(kbch)

corrupt_up_byte(frames, f) ==
    [frames EXCEPT ![f + 1] =
        [@ EXCEPT ![BBHEADER_LEN + 1 + up_error_offset(f)] = BitXor(@, 255)]]

scenario_up_stream(sc) ==
    IF sc.kind = "padded"
    THEN gen_up_stream(sc.seed, sc.n * (dfl_bytes_of(kbch) \div UPL_BYTES))
    ELSE gen_up_stream(sc.seed, n_ups_of(kbch, sc.n))

frame_syncd(frames, f) == parse_bbheader(frames[f + 1]).syncd

scenario_frames(sc, ups) ==
    LET frames == gen_bbframe_stream(kbch, sc.n, ups, 0)
    IN  CASE sc.kind = "clean" -> frames
          [] sc.kind = "padded" -> gen_padded_stream(kbch, sc.n, ups)
          [] sc.kind = "crc_error" -> corrupt_crc(frames, sc.f)
          [] sc.kind = "xor_dfl" -> xor_field(frames, sc.f, 4, GenPolyInt)
          [] sc.kind = "xor_dfl_x4" -> xor_field(frames, sc.f, 4, GenPolyInt * 4)
          [] sc.kind = "xor_syncd" -> xor_field(frames, sc.f, 7, GenPolyInt * 128)
          [] sc.kind = "dfl_gt" ->
                reheader(frames, sc.f, frame_syncd(frames, sc.f), (kbch - 80) + 8)
          [] sc.kind = "dfl_mod8" ->
                reheader(frames, sc.f, frame_syncd(frames, sc.f), (kbch - 80) - 4)
          [] sc.kind = "syncd_gt" -> reheader(frames, sc.f, (kbch - 80) + 8, -1)
          [] sc.kind = "syncd_mod8" ->
                reheader(frames, sc.f, frame_syncd(frames, sc.f) + 5, -1)
          [] sc.kind = "drop" -> drop_frame(frames, sc.f)
          [] sc.kind = "up_error" -> corrupt_up_byte(frames, sc.f)

InitBB ==
    /\ bb_scn \in BBScenarios
    /\ up_stream = scenario_up_stream(bb_scn)
    /\ bb_in = scenario_frames(bb_scn, up_stream)
    /\ bb_synced = FALSE
    /\ bb_packet = <<>>
    /\ bb_pending = <<>>
    /\ bb_out = <<>>
    /\ bb_discarded = 0

\* a BBFRAME that fails the checks is discarded whole, with the UP in progress
BBFrameDiscard ==
    /\ bb_in # <<>>
    /\ ~bbheader_valid(Head(bb_in))
    /\ bb_in' = Tail(bb_in)
    /\ bb_synced' = FALSE
    /\ bb_packet' = <<>>
    /\ bb_pending' = <<>>
    /\ bb_discarded' = bb_discarded + 1
    /\ UNCHANGED <<bb_scn, up_stream, bb_out>>

\* a valid BBFRAME is deframed
BBFrameDeframe ==
    /\ bb_in # <<>>
    /\ bbheader_valid(Head(bb_in))
    /\ LET st == deheader_deframe(bb_synced, DeheaderState, Head(bb_in))
       IN  /\ bb_packet' = st.packet
           /\ bb_pending' = st.pending
           /\ bb_out' = st.out
    /\ bb_synced' = TRUE
    /\ bb_in' = Tail(bb_in)
    /\ UNCHANGED <<bb_scn, up_stream, bb_discarded>>

bb_vars == <<bb_scn, up_stream, bb_in, bb_synced, bb_packet, bb_pending, bb_out,
             bb_discarded>>

(***************************************************************************)
(* Claims on the BBFRAME Deheader                                          *)
(***************************************************************************)
BBDone == bb_in = <<>>

\* Every generated BBHEADER points at the first UP boundary of its DATAFIELD:
\* no DATAFIELD before the last one ends exactly at the end of a UP (the
\* generator would then set SYNCD to a whole UP length instead of 0)
ValidSyncds(n) ==
    \A k \in 1..(n - 1) : (k * dfl_bytes_of(kbch)) % UPL_BYTES # 0

\* The UPs of the stream, from UP number j on, that lie wholly below byte hi
RECURSIVE UpsWhollyBelow(_, _, _)
UpsWhollyBelow(stream, j, hi) ==
    IF (j + 1) * UPL_BYTES <= hi
    THEN Slice(stream, j * UPL_BYTES, (j + 1) * UPL_BYTES)
         \o UpsWhollyBelow(stream, j + 1, hi)
    ELSE <<>>

\* The UPs of the stream, from UP number j on, that lie below byte hi together
\* with the byte that follows them (the CRC-8 in the next sync position)
RECURSIVE UpsWithCrcBelow(_, _, _)
UpsWithCrcBelow(stream, j, hi) ==
    IF (j + 1) * UPL_BYTES < hi
    THEN Slice(stream, j * UPL_BYTES, (j + 1) * UPL_BYTES)
         \o UpsWithCrcBelow(stream, j + 1, hi)
    ELSE <<>>

\* The stream bytes carried by BBFRAMEs a..b-1 of the generated stream
SpanLo(a) == a * dfl_bytes_of(kbch)

\* Number of the first UP starting at or after stream byte lo
FirstUpFrom(lo) == CeilDiv(lo, UPL_BYTES)

\* C3 as stated: the output of consecutive valid BBFRAMEs is the original UP
\* stream from its first UP through the last UP wholly contained in the frames.
C3_AllWholeUps ==
    (BBDone /\ bb_scn.kind = "clean" /\ ValidSyncds(bb_scn.n))
    => bb_out = UpsWhollyBelow(up_stream, 0, SpanLo(bb_scn.n))

\* C3 amended: the output of consecutive valid BBFRAMEs is, byte for byte, the
\* original UP stream from its first UP through the last UP that is wholly
\* contained in the frames and followed in them by the byte that carries its
\* CRC-8; every UP starts with 0x47 again; a complete UP at the very end of
\* the last DATAFIELD and the trailing partial UP are not output.
C3_UpsWithCrc ==
    (BBDone /\ bb_scn.kind = "clean" /\ ValidSyncds(bb_scn.n))
    => /\ bb_out = UpsWithCrcBelow(up_stream, 0, SpanLo(bb_scn.n))
       /\ Len(bb_out) % UPL_BYTES = 0
       /\ \A j \in 0..((Len(bb_out) \div UPL_BYTES) - 1) :
            bb_out[(j * UPL_BYTES) + 1] = SYNC_BYTE
       /\ bb_discarded = 0

\* C3 witness: three consecutive BBFRAMEs deframed, three UPs output
C3_Witness ==
    /\ BBDone
    /\ bb_scn.kind = "clean"
    /\ bb_scn.n = 3
    /\ Len(bb_out) = 3 * UPL_BYTES
    /\ bb_packet # <<>>

\* What is output when BBFRAME f of n is lost, every UP wholly contained in
\* the other frames being output
WholeUpsAroundLoss(f, n) ==
    UpsWhollyBelow(up_stream, 0, SpanLo(f))
    \o UpsWhollyBelow(up_stream, FirstUpFrom(SpanLo(f + 1)), SpanLo(n))

\* What is output when BBFRAME f of n is lost, a UP being output when the
\* byte that follows it has come in the same run of consecutive frames
UpsWithCrcAroundLoss(f, n) ==
    UpsWithCrcBelow(up_stream, 0, SpanLo(f))
    \o UpsWithCrcBelow(up_stream, FirstUpFrom(SpanLo(f + 1)), SpanLo(n))

\* C4 as stated: with the BBHEADER CRC-8 of one BBFRAME corrupted, the frame
\* is discarded whole and all UPs wholly contained in the other frames are output.
C4_CrcErrorAllWholeUps ==
    (BBDone /\ bb_scn.kind = "crc_error" /\ ValidSyncds(bb_scn.n))
    => /\ bb_discarded = 1
       /\ bb_out = WholeUpsAroundLoss(bb_scn.f, bb_scn.n)

\* C4 amended: a BBFRAME whose BBHEADER CRC-8 does not match is discarded
\* whole: no UP that overlaps its DATAFIELD is output, nothing but the
\* absence of output shows it, and the UPs of the other BBFRAMEs are output
\* unchanged and in order from the first complete UP located by the next
\* valid frame's SYNCD, except a complete UP at the very end of the last
\* DATAFIELD, which is withheld because the CRC-8 that follows it has not come.
C4_CrcErrorDiscard ==
    (BBDone /\ bb_scn.kind = "crc_error" /\ ValidSyncds(bb_scn.n))
    => /\ bb_discarded = 1
       /\ bb_out = UpsWithCrcAroundLoss(bb_scn.f, bb_scn.n)

\* C4 witness: the second of four BBFRAMEs failed its CRC-8; a UP of the
\* first frame and a UP of the frames after the discarded one have been output
C4_Witness ==
    /\ BBDone
    /\ bb_scn.kind = "crc_error"
    /\ bb_scn.n = 4
    /\ bb_scn.f = 1
    /\ bb_discarded = 1
    /\ Len(bb_out) = 2 * UPL_BYTES
    /\ SubSeq(bb_out, 1, UPL_BYTES) = Slice(up_stream, 0, UPL_BYTES)

\* the BBHEADERs that pass the CRC-8 with DFL or SYNCD out of range
RangeFaults == {"xor_dfl", "xor_dfl_x4", "xor_syncd", "dfl_gt", "dfl_mod8", "syncd_gt"}

\* C5: a BBFRAME whose BBHEADER passes the CRC-8 but has DFL > kbch - 80, DFL
\* not a multiple of 8 or SYNCD > DFL is discarded like one with a CRC
\* failure: none of its DATAFIELD bytes is output and the next valid BBFRAME
\* is processed from its own SYNCD position.
C5_RangeDiscard ==
    (BBDone /\ bb_scn.kind \in RangeFaults)
    => /\ bb_discarded = 1
       /\ bb_out = UpsWithCrcAroundLoss(bb_scn.f, bb_scn.n)

\* C5 witness: the first of three BBFRAMEs carried a CRC-valid BBHEADER with
\* DFL not a multiple of 8, and the output starts at the SYNCD of the second
C5_Witness ==
    /\ BBDone
    /\ bb_scn.kind = "dfl_mod8"
    /\ bb_scn.n = 3
    /\ bb_scn.f = 0
    /\ bb_discarded = 1
    /\ bb_out = Slice(up_stream, 2 * UPL_BYTES, 3 * UPL_BYTES)

\* C6: a BBFRAME whose CRC-valid BBHEADER has a SYNCD that is not a multiple
\* of 8 bits is discarded whole, and the output resumes with the first
\* complete UP of the next valid BBFRAME.
C6_MisalignedSyncdDiscard ==
    (BBDone /\ bb_scn.kind = "syncd_mod8")
    => /\ bb_discarded = 1
       /\ bb_out = UpsWithCrcBelow(up_stream, 0, SpanLo(bb_scn.f))
                   \o UpsWithCrcBelow(up_stream, FirstUpFrom(SpanLo(bb_scn.f + 1)),
                                      SpanLo(bb_scn.n))
       /\ Len(bb_out) % UPL_BYTES = 0

\* C6 witness: the second of four BBFRAMEs had SYNCD = 5 more than a byte
\* boundary; it was discarded and the output resumed in the third
C6_Witness ==
    /\ BBDone
    /\ bb_scn.kind = "syncd_mod8"
    /\ bb_scn.n = 4
    /\ bb_scn.f = 1
    /\ bb_discarded = 1
    /\ Len(bb_out) > UPL_BYTES

\* C7 as stated: with one BBFRAME removed from the input, every UP wholly
\* contained in earlier frames and every UP wholly contained in later frames
\* is output, and nothing else.
C7_DropAllWholeUps ==
    (BBDone /\ bb_scn.kind = "drop" /\ ValidSyncds(bb_scn.n))
    => /\ bb_discarded = 0
       /\ bb_out = WholeUpsAroundLoss(bb_scn.f, bb_scn.n)

\* C7 amended: with one BBFRAME removed from the input and no error
\* signalled, the output misses the UPs that overlap the removed DATAFIELD:
\* the UPs wholly contained in earlier frames and those wholly contained in
\* later frames are output in order, except a complete UP at the very end of
\* the last DATAFIELD (its CRC-8 has not come); the UP partially buffered
\* before the gap is never output, alone or joined with later bytes.
C7_DropResync ==
    (BBDone /\ bb_scn.kind = "drop" /\ ValidSyncds(bb_scn.n))
    => /\ bb_discarded = 0
       /\ bb_out = UpsWithCrcAroundLoss(bb_scn.f, bb_scn.n)

\* C7 witness: the second of four BBFRAMEs was removed; the first UP was
\* output before the gap and the output resumed with the fourth UP after it
C7_Witness ==
    /\ BBDone
    /\ bb_scn.kind = "drop"
    /\ bb_scn.n = 4
    /\ bb_scn.f = 1
    /\ bb_discarded = 0
    /\ bb_out = Slice(up_stream, 0, UPL_BYTES)
                \o Slice(up_stream, 3 * UPL_BYTES, 4 * UPL_BYTES)

\* C8: for BBFRAMEs whose DFL is smaller than kbch - 80 and holds a whole
\* number of UPs, SYNCD = 0, the rest zero-padded, the output is the
\* transmitted UP stream without its final UP; no padding byte is output.
C8_PaddedDfl ==
    (BBDone /\ bb_scn.kind = "padded")
    => /\ bb_out = Slice(up_stream, 0, Len(up_stream) - UPL_BYTES)
       /\ bb_pending = Slice(up_stream, Len(up_stream) - UPL_BYTES, Len(up_stream))
       /\ bb_discarded = 0

\* C8 witness: three padded BBFRAMEs, the UPs of the first two output and
\* the last UP withheld
C8_Witness ==
    /\ BBDone
    /\ bb_scn.kind = "padded"
    /\ bb_scn.n = 3
    /\ padded_dfl_bytes(kbch) < dfl_bytes_of(kbch)
    /\ Len(bb_out) = Len(up_stream) - UPL_BYTES
    /\ Len(bb_out) > 0

(***************************************************************************)
(* Claims on the CRC-8 chain of the UPs                                    *)
(***************************************************************************)
\* the place in the UP stream of the byte hit in the "up_error" streams
UpErrorByte(f) == SpanLo(f) + up_error_offset(f)

\* the UP that byte error spoils: the UP that holds the byte, or the UP
\* before when the byte is the CRC-8 carried in a sync position (the sync
\* position of the very first UP carries no CRC-8: -1, no UP)
SpoiledUp(g) ==
    IF g % UPL_BYTES = 0 THEN (g \div UPL_BYTES) - 1 ELSE g \div UPL_BYTES

\* UpsWithCrcBelow without UP number skip
RECURSIVE UpsWithCrcBelowBut(_, _, _, _)
UpsWithCrcBelowBut(stream, j, hi, skip) ==
    IF (j + 1) * UPL_BYTES < hi
    THEN (IF j = skip THEN <<>> ELSE Slice(stream, j * UPL_BYTES, (j + 1) * UPL_BYTES))
         \o UpsWithCrcBelowBut(stream, j + 1, hi, skip)
    ELSE <<>>

\* the scenarios in which all BBFRAMEs are valid and consecutive
ValidFramesOnly == bb_scn.kind \in {"clean", "padded", "up_error"}

datafield(frame) ==
    Slice(frame, BBHEADER_LEN, BBHEADER_LEN + (parse_bbheader(frame).dfl \div 8))

RECURSIVE datafields(_)
datafields(frames) ==
    IF frames = <<>> THEN <<>> ELSE datafield(Head(frames)) \o datafields(Tail(frames))

\* the DATAFIELD bytes the Deheader has received so far
ReceivedData ==
    LET frames == scenario_frames(bb_scn, up_stream)
    IN  datafields(SubSeq(frames, 1, Len(frames) - Len(bb_in)))

\* the UPs of the received bytes, from UP number j on, whose chained CRC-8
\* has been received and matches, with the sync byte restored
RECURSIVE ChainValidUps(_, _)
ChainValidUps(data, j) ==
    IF (j + 1) * UPL_BYTES < Len(data)
    THEN LET body == Slice(data, (j * UPL_BYTES) + 1, (j + 1) * UPL_BYTES)
         IN  (IF deheader_crc8(body) = data[((j + 1) * UPL_BYTES) + 1]
              THEN <<SYNC_BYTE>> \o body ELSE <<>>)
             \o ChainValidUps(data, j + 1)
    ELSE <<>>

OutputUp(k) == Slice(bb_out, k * UPL_BYTES, (k + 1) * UPL_BYTES)

\* the UPs of the output from number k on are, in this order, UPs of the
\* transmitted stream of a number not below j, each taken once
RECURSIVE UpSubsequenceFrom(_, _)
UpSubsequenceFrom(k, j) ==
    IF k * UPL_BYTES >= Len(bb_out) THEN TRUE
    ELSE IF (j + 1) * UPL_BYTES > Len(up_stream) THEN FALSE
    ELSE IF OutputUp(k) = Slice(up_stream, j * UPL_BYTES, (j + 1) * UPL_BYTES)
         THEN UpSubsequenceFrom(k + 1, j + 1)
         ELSE UpSubsequenceFrom(k, j + 1)

\* C28: whatever BBFRAMEs have come (valid, with a wrong CRC-8, with DFL or
\* SYNCD out of range, with one missing), what has been output so far is a
\* whole number of UPs, each with 0x47 first, that are UPs of the transmitted
\* stream in their order, none twice: no byte of a BBHEADER, of the padding
\* or of a partial UP is output.
C28_OutputWholeUps ==
    /\ Len(bb_out) % UPL_BYTES = 0
    /\ \A k \in 0..((Len(bb_out) \div UPL_BYTES) - 1) : OutputUp(k)[1] = SYNC_BYTE
    /\ UpSubsequenceFrom(0, 0)

\* C28 witness: the second of four BBFRAMEs carried a DFL above kbch - 80
\* and was discarded, and UPs were output before and after it
C28_Witness ==
    /\ BBDone
    /\ bb_scn.kind = "dfl_gt"
    /\ bb_scn.n = 4
    /\ bb_scn.f = 1
    /\ bb_discarded = 1
    /\ Len(bb_out) = 2 * UPL_BYTES
    /\ OutputUp(1) = Slice(up_stream, 3 * UPL_BYTES, 4 * UPL_BYTES)

(***************************************************************************)
(* python/dvbs2rx/qa_plsync_cc.py: the symbol streams that drive the PL    *)
(* Frame Synchronizer.  A stream is a sequence of segments of symbols; a   *)
(* segment records its kind, its length in symbols, the PLS of a PLHEADER, *)
(* and the PLFRAME and place it was generated at.                          *)
(***************************************************************************)
MaxPlFrames == 3        \* largest number of PLFRAMEs in a generated stream

MaxDelay == 2           \* the random delay is 2 * (0..MaxDelay) symbols

PLHEADER_LEN == 90

SLOT_LEN == 90

PILOT_BLK_LEN == 36

PILOT_BLK_PERIOD == 16  \* slots between pilot blocks

TRAILING_ZEROS == 100

NON_PLHEADER_LEN == 10000

Segment(type, len, pls, idx) ==
    [type |-> type, len |-> len, pls |-> pls, frame |-> 0, idx |-> idx]

\* np.zeros(n_slots * 90), as slots numbered from first
slots_from(first, n_slots) ==
    [i \in 1..n_slots |-> Segment("slot", SLOT_LEN, 0, first + i - 1)]

\* get_test_plframe(pilots): <<plframe, modcod, short_frame, slots>>
get_test_plframe(pilots) ==
    LET modcod == 21
        short_frame == TRUE
        slots == 45
    IN  IF pilots
        THEN <<<<Segment("plheader", PLHEADER_LEN, (modcod * 4) + 2 + 1, 0)>>
               \o slots_from(0, 16) \o <<Segment("pilot", PILOT_BLK_LEN, 0, 0)>>
               \o slots_from(16, 16) \o <<Segment("pilot", PILOT_BLK_LEN, 0, 1)>>
               \o slots_from(32, 13),
               modcod, short_frame, slots>>
        ELSE <<<<Segment("plheader", PLHEADER_LEN, (modcod * 4) + 2 + 0, 0)>>
               \o slots_from(0, (4140 - 90) \div SLOT_LEN),
               modcod, short_frame, slots>>

\* the k-th copy of a PLFRAME
plframe_copy(plframe, k) ==
    [i \in 1..Len(plframe) |-> [plframe[i] EXCEPT !.frame = k]]

RECURSIVE replicate_loop(_, _, _)
replicate_loop(n, plframe, k) ==
    IF k >= n THEN <<>>
    ELSE plframe_copy(plframe, k) \o replicate_loop(n, plframe, k + 1)

replicate_plframes_no_extra(n, plframe) == replicate_loop(n, plframe, 0)

\* n PLFRAMEs and n+1 PLHEADERs, the first PLFRAME being lost
replicate_plframes_from_second(n, plframe) ==
    replicate_loop(n + 1, plframe, 1) \o plframe_copy(SubSeq(plframe, 1, 1), n + 1)

\* replicate_plframes(n, plframe): n PLFRAMEs and n+1 PLHEADERs
replicate_plframes(n, plframe) ==
    replicate_loop(n, plframe, 0) \o plframe_copy(SubSeq(plframe, 1, 1), n)

zeros_segment(len) ==
    IF len = 0 THEN <<>> ELSE <<Segment("zeros", len, 0, 0)>>

\* _run_flowgraph: the input symbols, delay being 2 * np.random.randint
run_flowgraph_input(nframes, rnd_delay, pilots) ==
    zeros_segment(2 * rnd_delay)
    \o replicate_plframes(nframes, get_test_plframe(pilots)[1])
    \o zeros_segment(TRAILING_ZEROS)

\* a stream that ends after the payload of its last PLFRAME
cut_input(nframes, rnd_delay, pilots) ==
    zeros_segment(2 * rnd_delay)
    \o replicate_loop(nframes, get_test_plframe(pilots)[1], 0)
    \o zeros_segment(TRAILING_ZEROS)

plheader_input == run_flowgraph_input(2, 0, FALSE)

\* _run_flowgraph: pls_filter_lo = pls_filter_hi = 0xFFFFFFFFFFFFFFFF
run_flowgraph_pls_filter ==
    <<[k \in 1..N_LIMBS |-> Pow2(LIMB_BITS) - 1], [k \in 1..N_LIMBS |-> Pow2(LIMB_BITS) - 1]>>

\* whether PLFRAME k of a stream of PLFRAMEs that take turns carries pilots
vcm_pilots(first_pilots, k) == IF k % 2 = 0 THEN first_pilots ELSE ~first_pilots

RECURSIVE vcm_loop(_, _, _)
vcm_loop(n, first_pilots, k) ==
    IF k >= n THEN <<>>
    ELSE plframe_copy(get_test_plframe(vcm_pilots(first_pilots, k))[1], k)
         \o vcm_loop(n, first_pilots, k + 1)

\* nframes test PLFRAMEs that take turns with and without pilots (two
\* streams with different PLS), and the PLHEADER of the PLFRAME after them
vcm_input(nframes, rnd_delay, first_pilots) ==
    zeros_segment(2 * rnd_delay)
    \o vcm_loop(nframes, first_pilots, 0)
    \o plframe_copy(SubSeq(get_test_plframe(vcm_pilots(first_pilots, nframes))[1], 1, 1),
                    nframes)
    \o zeros_segment(TRAILING_ZEROS)

DUMMY_SLOTS == 36

\* a dummy PLFRAME: a PLHEADER with MODCOD 0 and 36 slots, no pilot blocks
dummy_plframe ==
    <<Segment("plheader", PLHEADER_LEN, 0, 0)>> \o slots_from(0, DUMMY_SLOTS)

\* nframes test PLFRAMEs with a dummy PLFRAME after the first of them: the
\* dummy PLFRAME is PLFRAME 1, the test PLFRAMEs are 0 and 2..nframes
dummy_input(nframes, rnd_delay, pilots) ==
    LET plframe == get_test_plframe(pilots)[1]
    IN  zeros_segment(2 * rnd_delay)
        \o plframe_copy(plframe, 0)
        \o plframe_copy(dummy_plframe, 1)
        \o replicate_loop(nframes + 1, plframe, 2)
        \o plframe_copy(SubSeq(plframe, 1, 1), nframes + 1)
        \o zeros_segment(TRAILING_ZEROS)

\* test_non_plheader_qpsk: random QPSK symbols, no PLHEADER among them
non_plheader_input == <<Segment("qpsk", NON_PLHEADER_LEN, 0, 0)>>

\* _set_test_plframe: xfecframe_len of the test PLFRAME
test_xfecframe_len(pilots) == get_test_plframe(pilots)[4] * 90

(***************************************************************************)
(* The PL Frame Synchronizer (plsync_cc).  It finds PLFRAMEs between two   *)
(* consecutive SOFs: the payload that follows a PLHEADER is kept until the *)
(* next PLHEADER comes where the decoded PLSC says it should, and is then  *)
(* output as one XFECFRAME, tagged on its first symbol.                    *)
(***************************************************************************)
VARIABLES
    pl_scn,      \* the test scenario: kind, number of PLFRAMEs, delay, pilots
    pl_filter,   \* pls_filter_lo and pls_filter_hi, as words of limbs
    pl_in,       \* the segments not yet consumed by the synchronizer
    pl_state,    \* "searching", "found" (one SOF, UNLOCKED) or "locked" (LOCKED)
    pl_pls,      \* the PLSC decoded from the last PLHEADER
    pl_pos,      \* symbols taken since the start of the last PLHEADER
    pl_buf,      \* the payload segments kept since the last PLHEADER
    pl_nbuf,     \* the number of payload symbols kept in pl_buf
    pl_sofs,     \* the number of PLHEADERs detected so far
    pl_out,      \* the segments output
    pl_nout,     \* the number of symbols output
    pl_tags,     \* the XFECFRAME tags: output offset, MODCOD, short_frame
    pl_fstate,   \* "uncorrected", "coarse_corrected" or "fine_tracking"
    pl_est,      \* the latest estimate of the residual frequency offset
    pl_rot_cur,  \* the correction the rotator has tagged as in effect
    pl_cmd_log,  \* the commands sent: PLHEADER count and phase increment
    rot_cmd,     \* the message on its way to the rotator: <<>> or <<inc>>
    rot_inc,     \* the correction the external rotator applies
    rot_tag      \* the rotator's tag of an update, not yet seen: <<>> or <<inc, place>>

\* the fields of the PLSC
plsc_modcod(pls) == pls \div 4

plsc_short_frame(pls) == (pls \div 2) % 2 = 1

plsc_has_pilots(pls) == pls % 2 = 1

\* bits per symbol of a MODCOD; 0 for the dummy PLFRAME and unused MODCODs
modcod_n_mod(modcod) ==
    IF modcod >= 1 /\ modcod <= 11 THEN 2
    ELSE IF modcod >= 12 /\ modcod <= 17 THEN 3
    ELSE IF modcod >= 18 /\ modcod <= 23 THEN 4
    ELSE IF modcod >= 24 /\ modcod <= 28 THEN 5
    ELSE 0

\* S: 360, 240, 180 or 144 slots, divided by 4 for short FECFRAMEs; a dummy
\* PLFRAME has 36 slots
pls_n_slots(pls) ==
    LET n_mod == modcod_n_mod(plsc_modcod(pls))
        normal == CASE n_mod = 2 -> 360 [] n_mod = 3 -> 240
                    [] n_mod = 4 -> 180 [] n_mod = 5 -> 144 [] OTHER -> 36
    IN  IF plsc_short_frame(pls) /\ n_mod # 0 THEN normal \div 4 ELSE normal

\* dummy PLFRAMEs (MODCOD 0) carry no pilots
pls_n_pilots(pls) ==
    IF plsc_has_pilots(pls) /\ modcod_n_mod(plsc_modcod(pls)) # 0
    THEN (pls_n_slots(pls) - 1) \div PILOT_BLK_PERIOD
    ELSE 0

pls_plframe_len(pls) ==
    ((pls_n_slots(pls) + 1) * SLOT_LEN) + (PILOT_BLK_LEN * pls_n_pilots(pls))

\* whether the symbol at place q of a PLFRAME (0 is the first PLHEADER
\* symbol) belongs to a pilot block
is_pilot_symbol(pls, q) ==
    LET period == (PILOT_BLK_PERIOD * SLOT_LEN) + PILOT_BLK_LEN
        r == q - PLHEADER_LEN
    IN  /\ r >= 0
        /\ r \div period < pls_n_pilots(pls)
        /\ r % period >= PILOT_BLK_PERIOD * SLOT_LEN

\* the number of payload symbols among len symbols from place q on
payload_symbols(pls, q, len) ==
    Cardinality({p \in q..(q + len - 1) : ~is_pilot_symbol(pls, p)})

is_plheader(seg) == seg.type = "plheader"

\* np.random.uniform(-.25, .25), in hundredths of a cycle per symbol; 0 is
\* the default freq_offset of _run_flowgraph
FreqArgs == {-24, 0, 13}

\* the PLS given to pls_filter: those of the test PLFRAME without pilots
\* (86) and with pilots (87), and others
AcceptArgs == {<<>>, <<86>>, <<87>>, <<87, 86>>, <<0, 63>>}

\* the closed loop is run on streams that start with the first PLFRAME
PlScenarios ==
    [kind : {"frames", "cut"}, n : 1..MaxPlFrames, delay : 0..MaxDelay,
     pilots : BOOLEAN, fe : FreqArgs, closed_loop : {FALSE}, accept : {<<>>}]
    \cup [kind : {"frames", "cut"}, n : 1..MaxPlFrames, delay : {0},
          pilots : BOOLEAN, fe : FreqArgs, closed_loop : {TRUE}, accept : {<<>>}]
    \cup [kind : {"dummy"}, n : 1..MaxPlFrames, delay : 0..MaxDelay,
          pilots : BOOLEAN, fe : {0}, closed_loop : {FALSE}, accept : {<<>>}]
    \cup [kind : {"vcm"}, n : 1..MaxPlFrames, delay : 0..MaxDelay,
          pilots : BOOLEAN, fe : {0}, closed_loop : {FALSE}, accept : AcceptArgs]
    \cup {[kind |-> "noise", n |-> 0, delay |-> 0, pilots |-> FALSE, fe |-> 0,
           closed_loop |-> FALSE, accept |-> <<>>]}

\* the PLS filter the synchronizer is built with: that of _run_flowgraph,
\* or pls_filter(*accept) for the streams of two PLS
scenario_pls_filter(sc) ==
    IF sc.kind = "vcm" THEN pls_filter(sc.accept).mask ELSE run_flowgraph_pls_filter

scenario_input(sc) ==
    CASE sc.kind = "frames" -> run_flowgraph_input(sc.n, sc.delay, sc.pilots)
      [] sc.kind = "cut" -> cut_input(sc.n, sc.delay, sc.pilots)
      [] sc.kind = "dummy" -> dummy_input(sc.n, sc.delay, sc.pilots)
      [] sc.kind = "vcm" -> vcm_input(sc.n, sc.delay, sc.pilots)
      [] sc.kind = "noise" -> non_plheader_input

InitPL ==
    /\ pl_scn \in PlScenarios
    /\ pl_filter = scenario_pls_filter(pl_scn)
    /\ pl_in = scenario_input(pl_scn)
    /\ pl_state = "searching"
    /\ pl_pls = 0
    /\ pl_pos = 0
    /\ pl_buf = <<>>
    /\ pl_nbuf = 0
    /\ pl_sofs = 0
    /\ pl_out = <<>>
    /\ pl_nout = 0
    /\ pl_tags = <<>>
    /\ pl_fstate = "uncorrected"
    /\ pl_est = 0
    /\ pl_rot_cur = 0
    /\ pl_cmd_log = <<>>
    /\ rot_cmd = <<>>
    /\ rot_inc = 0
    /\ rot_tag = <<>>

(***************************************************************************)
(* The frequency synchronizer of plsync_cc and the rotator it commands.    *)
(* Frequencies are in hundredths of a cycle per symbol.  Each PLHEADER     *)
(* gives a coarse estimate of the offset left on the symbols; once LOCKED, *)
(* an estimate out of the fine range is sent to the rotator as the         *)
(* correction to apply from the start of the next PLFRAME.  The rotator    *)
(* tags the symbol on which it changes its phase increment, which tells    *)
(* the synchronizer what correction is in effect.                          *)
(***************************************************************************)
FINE_EST_RANGE == 1     \* a residual offset below it is in the fine range

freq_vars == <<pl_fstate, pl_est, pl_rot_cur, pl_cmd_log, rot_cmd, rot_inc, rot_tag>>

msg_connected_never(closed_loop) == FALSE

\* _run_flowgraph: msg_connect((plsync, 'rotator_phase_inc'),
\* (freq_corr_rot, 'cmd')) in closed loop only
msg_connected(closed_loop) == closed_loop

\* a message published on a port nobody listens to is lost
publish(cmd, connected) == IF connected THEN cmd ELSE <<>>

\* chan_rot rotates by fe, freq_corr_rot takes its correction off
residual_offset(fe, inc) == fe - inc

\* without noise the coarse estimate is the offset on the PLHEADER, which it
\* knows up to whole multiples of the ambiguity range of +-0.5
coarse_estimate(residual) == ((residual + 50) % 100) - 50

abs_freq(f) == IF f < 0 THEN 0 - f ELSE f

is_coarse_corrected(est) == abs_freq(est) < FINE_EST_RANGE

fstate_skips_coarse(fstate, est, payload_done) ==
    IF ~is_coarse_corrected(est) THEN "uncorrected"
    ELSE IF payload_done THEN "fine_tracking"
    ELSE "coarse_corrected"

\* UNCORRECTED -> COARSE-CORRECTED when the estimate of a PLHEADER is in the
\* fine range, -> FINE-TRACKING when the payload of a PLFRAME was processed
\* in the coarse-corrected state
fstate_after_plheader(fstate, est, payload_done) ==
    IF ~is_coarse_corrected(est) THEN "uncorrected"
    ELSE IF fstate # "uncorrected" /\ payload_done THEN "fine_tracking"
    ELSE "coarse_corrected"

rot_cur_tag_ignored == pl_rot_cur

\* the correction in effect, as the rotator's tag on the symbol says
rot_cur_seen == IF rot_tag # <<>> THEN rot_tag[1] ELSE pl_rot_cur

\* get_freq_offset(): the cumulative offset, the correction in effect plus
\* the estimate of what is left
get_freq_offset == pl_rot_cur + pl_est

\* the rotator takes the command at some symbol of the PLFRAME the
\* synchronizer is in, the first symbol of the next PLFRAME at the latest:
\* from there on it applies the new correction, and it tags that symbol
\* (pl_pos is the place of the symbol in the PLFRAME)
RotatorCmd ==
    /\ rot_cmd # <<>>
    /\ pl_pos <= pls_plframe_len(pl_pls)
    /\ rot_inc' = rot_cmd[1]
    /\ rot_tag' = <<rot_cmd[1], pl_pos>>
    /\ rot_cmd' = <<>>
    /\ UNCHANGED <<pl_scn, pl_filter, pl_in, pl_state, pl_pls, pl_pos, pl_buf, pl_nbuf, pl_sofs,
                   pl_out, pl_nout, pl_tags, pl_fstate, pl_est, pl_rot_cur, pl_cmd_log>>

\* searching: symbols that are no PLHEADER are dropped
PLSearchSkip ==
    /\ pl_in # <<>>
    /\ pl_state = "searching"
    /\ ~is_plheader(Head(pl_in))
    /\ pl_in' = Tail(pl_in)
    /\ UNCHANGED <<pl_scn, pl_filter, pl_state, pl_pls, pl_pos, pl_buf, pl_nbuf, pl_sofs, pl_out,
                   pl_nout, pl_tags, freq_vars>>

\* searching: a first PLHEADER is found and its PLSC decoded
PLSofFound ==
    /\ pl_in # <<>>
    /\ pl_state = "searching"
    /\ is_plheader(Head(pl_in))
    /\ pl_state' = "found"
    /\ pl_pls' = Head(pl_in).pls
    /\ pl_pos' = Head(pl_in).len
    /\ pl_buf' = <<>>
    /\ pl_nbuf' = 0
    /\ pl_sofs' = pl_sofs + 1
    /\ pl_in' = Tail(pl_in)
    /\ LET est == coarse_estimate(residual_offset(pl_scn.fe, rot_inc))
       IN  /\ pl_est' = est
           /\ pl_fstate' = fstate_after_plheader(pl_fstate, est, FALSE)
    /\ pl_rot_cur' = rot_cur_seen
    /\ rot_tag' = <<>>
    /\ UNCHANGED <<pl_scn, pl_filter, pl_out, pl_nout, pl_tags, pl_cmd_log, rot_cmd, rot_inc>>

\* the payload kept from a segment taken at place pl_pos of the PLFRAME
kept_payload(pls, pos, seg) ==
    LET n == payload_symbols(pls, pos, seg.len)
    IN  IF n = 0 THEN <<>> ELSE <<[seg EXCEPT !.len = n]>>

\* after a PLHEADER: the symbols of the PLFRAME are taken, the payload
\* kept and the pilot blocks left out
PLPayload ==
    /\ pl_in # <<>>
    /\ pl_state # "searching"
    /\ pl_pos < pls_plframe_len(pl_pls)
    /\ ~is_plheader(Head(pl_in))
    /\ pl_buf' = pl_buf \o kept_payload(pl_pls, pl_pos, Head(pl_in))
    /\ pl_nbuf' = pl_nbuf + payload_symbols(pl_pls, pl_pos, Head(pl_in).len)
    /\ pl_pos' = pl_pos + Head(pl_in).len
    /\ pl_in' = Tail(pl_in)
    /\ UNCHANGED <<pl_scn, pl_filter, pl_state, pl_pls, pl_sofs, pl_out, pl_nout, pl_tags,
                   freq_vars>>

\* the tag of an XFECFRAME that starts at an output offset
xfecframe_tag(offset, pls) ==
    [offset |-> offset, modcod |-> plsc_modcod(pls), short_frame |-> plsc_short_frame(pls)]

pls_is_dummy_never(pls) == FALSE

\* MODCOD 0 denotes a dummy PLFRAME
pls_is_dummy(pls) == plsc_modcod(pls) = 0

pls_enabled_always(filter, pls) == TRUE

\* bit pls of the 128-bit filter: of the low word below 64, of the high word
\* from 64 on
pls_enabled(filter, pls) ==
    IF pls < 64 THEN WordBit(filter[1], pls) = 1 ELSE WordBit(filter[2], pls - 64) = 1

\* the next PLHEADER comes where it is expected: the synchronizer is (or
\* stays) LOCKED and the PLFRAME between the two SOFs is output, unless it
\* is a dummy PLFRAME or its PLS is masked out, which is dropped without a tag
PLSofLock ==
    /\ pl_in # <<>>
    /\ pl_state # "searching"
    /\ pl_pos = pls_plframe_len(pl_pls)
    /\ is_plheader(Head(pl_in))
    /\ rot_cmd = <<>>
    /\ pl_state' = "locked"
    /\ IF pls_is_dummy(pl_pls) \/ ~pls_enabled(pl_filter, pl_pls)
       THEN UNCHANGED <<pl_tags, pl_out, pl_nout>>
       ELSE /\ pl_tags' = Append(pl_tags, xfecframe_tag(pl_nout, pl_pls))
            /\ pl_out' = pl_out \o pl_buf
            /\ pl_nout' = pl_nout + pl_nbuf
    /\ pl_pls' = Head(pl_in).pls
    /\ pl_pos' = Head(pl_in).len
    /\ pl_buf' = <<>>
    /\ pl_nbuf' = 0
    /\ pl_sofs' = pl_sofs + 1
    /\ pl_in' = Tail(pl_in)
    /\ LET est == coarse_estimate(residual_offset(pl_scn.fe, rot_inc))
           inc == rot_cur_seen + est
       IN  /\ pl_est' = est
           /\ pl_fstate' = fstate_after_plheader(pl_fstate, est, TRUE)
           /\ IF is_coarse_corrected(est)
              THEN /\ rot_cmd' = <<>>
                   /\ pl_cmd_log' = pl_cmd_log
              ELSE /\ rot_cmd' = publish(<<inc>>, msg_connected(pl_scn.closed_loop))
                   /\ pl_cmd_log' = Append(pl_cmd_log, [sof |-> pl_sofs + 1,
                                                        inc |-> inc])
    /\ pl_rot_cur' = rot_cur_seen
    /\ rot_tag' = <<>>
    /\ UNCHANGED <<pl_scn, pl_filter, rot_inc>>

\* no PLHEADER where it is expected: back to UNLOCKED, what was kept is dropped
PLMiss ==
    /\ pl_in # <<>>
    /\ pl_state # "searching"
    /\ pl_pos = pls_plframe_len(pl_pls)
    /\ ~is_plheader(Head(pl_in))
    /\ rot_cmd = <<>>
    /\ pl_state' = "searching"
    /\ pl_pos' = 0
    /\ pl_buf' = <<>>
    /\ pl_nbuf' = 0
    /\ pl_fstate' = "uncorrected"
    /\ pl_est' = 0
    /\ pl_rot_cur' = rot_cur_seen
    /\ rot_tag' = <<>>
    /\ UNCHANGED <<pl_scn, pl_filter, pl_in, pl_pls, pl_sofs, pl_out, pl_nout, pl_tags,
                   pl_cmd_log, rot_cmd, rot_inc>>

pl_vars == <<pl_scn, pl_filter, pl_in, pl_state, pl_pls, pl_pos, pl_buf, pl_nbuf, pl_sofs, pl_out,
            pl_nout, pl_tags, pl_fstate, pl_est, pl_rot_cur, pl_cmd_log, rot_cmd,
            rot_inc, rot_tag>>

(***************************************************************************)
(* Claims on the PL Frame Synchronizer                                     *)
(***************************************************************************)
PLDone == pl_in = <<>>

\* the slots of PLFRAMEs 0..n-1 of the test stream, in order
RECURSIVE PayloadOfFrames(_, _, _)
PayloadOfFrames(plframe, k, n) ==
    IF k >= n THEN <<>>
    ELSE SelectSeq(plframe_copy(plframe, k), LAMBDA s : s.type = "slot")
         \o PayloadOfFrames(plframe, k + 1, n)

\* C1: for n >= 2 back-to-back PLFRAMEs with the same PLSC followed by one
\* extra PLHEADER, with or without leading symbols and pilot blocks, the
\* output carries exactly n XFECFRAME tags, the k-th at offset k * slots * 90
\* with the (MODCOD, short_frame) of the frame, and only the slots * 90
\* payload symbols of each frame reach the output.
C1_TagsAtXfecframes ==
    (PLDone /\ pl_scn.kind = "frames" /\ pl_scn.n >= 2)
    => LET t == get_test_plframe(pl_scn.pilots)
       IN  /\ Len(pl_tags) = pl_scn.n
           /\ \A k \in 0..(pl_scn.n - 1) :
                pl_tags[k + 1] = [offset |-> k * test_xfecframe_len(pl_scn.pilots),
                                  modcod |-> t[2], short_frame |-> t[3]]
           /\ pl_out = PayloadOfFrames(t[1], 0, pl_scn.n)
           /\ pl_nout = pl_scn.n * t[4] * 90

\* C1 witness: two PLFRAMEs with pilots after a delay, tags at 0 and 4050
C1_Witness ==
    /\ PLDone
    /\ pl_scn.kind = "frames"
    /\ pl_scn.n = 2
    /\ pl_scn.pilots
    /\ pl_scn.delay > 0
    /\ pl_tags = <<[offset |-> 0, modcod |-> 21, short_frame |-> TRUE],
                   [offset |-> 4050, modcod |-> 21, short_frame |-> TRUE]>>

PLUnlocked(state) == state # "locked"

\* C2: while the synchronizer is UNLOCKED it emits no output symbol and no
\* XFECFRAME tag, and as long as fewer than two PLHEADERs have been
\* detected (none at all in a stream without PLHEADERs) there is no tag.
C2_NoOutputWhileUnlocked ==
    /\ [](pl_sofs < 2 => (pl_tags = <<>> /\ pl_out = <<>> /\ pl_nout = 0))
    /\ [](pl_scn.kind = "noise" => (pl_sofs = 0 /\ pl_tags = <<>>))
    /\ [][PLUnlocked(pl_state') => UNCHANGED <<pl_out, pl_nout, pl_tags>>]_pl_vars

\* C2 witness: the synchronizer is UNLOCKED again after it has output an
\* XFECFRAME, or has taken a whole stream without PLHEADER
C2_Witness ==
    /\ PLDone
    /\ PLUnlocked(pl_state)
    /\ \/ pl_scn.kind = "cut" /\ pl_sofs = 2 /\ Len(pl_tags) = 1
       \/ pl_scn.kind = "noise"
(***************************************************************************)
(* Claims on the frequency correction in closed loop                       *)
(***************************************************************************)
\* a noiseless stream of PLFRAMEs rotated by fe, with the rotator connected
RotatedClosedLoop == pl_scn.kind = "frames" /\ pl_scn.closed_loop /\ pl_scn.fe # 0

HoldsFrameAt(first, k, slots) ==
    /\ Len(pl_out) >= first + slots - 1
    /\ \A i \in 1..slots :
         /\ pl_out[first + i - 1].type = "slot"
         /\ pl_out[first + i - 1].frame = k
         /\ pl_out[first + i - 1].idx = i - 1
         /\ pl_out[first + i - 1].len = SLOT_LEN

\* C19 as stated: no output before two PLHEADERs were observed, and the
\* payload of the first PLFRAME, received before the lock was acquired, is
\* never output, also not after the lock is acquired.
C19_FirstFrameNeverEmitted ==
    /\ pl_sofs < 2 => (pl_out = <<>> /\ pl_nout = 0 /\ pl_tags = <<>>)
    /\ \A i \in 1..Len(pl_out) : pl_out[i].frame # 0

\* C19 as amended: no output before two PLHEADERs were observed; the payload
\* of the first PLFRAME is kept while UNLOCKED and is output as the first
\* XFECFRAME, tagged at offset 0, once the second PLHEADER was observed where
\* the first one said it would come.
C19_FirstFrameOnLock ==
    /\ pl_sofs < 2 => (pl_out = <<>> /\ pl_nout = 0 /\ pl_tags = <<>>)
    /\ (pl_scn.kind \in {"frames", "cut"} /\ pl_sofs >= 2)
       => LET t == get_test_plframe(pl_scn.pilots)
          IN  /\ HoldsFrameAt(1, 0, t[4])
              /\ pl_nout >= t[4] * SLOT_LEN
              /\ pl_tags # <<>>
              /\ pl_tags[1] = [offset |-> 0, modcod |-> t[2], short_frame |-> t[3]]

\* C19 witness: the lock was just acquired at the second PLHEADER of a
\* delayed stream and the output is the payload of the first PLFRAME
C19_Witness ==
    /\ pl_scn.kind = "frames"
    /\ pl_scn.delay > 0
    /\ pl_scn.n >= 2
    /\ pl_sofs = 2
    /\ pl_state = "locked"
    /\ HoldsFrameAt(1, 0, 45)
    /\ Len(pl_out) = 45
    /\ pl_nout = 4050
    /\ pl_tags = <<[offset |-> 0, modcod |-> 21, short_frame |-> TRUE]>>

(***************************************************************************)
(* Claims on dummy PLFRAMEs                                                *)
(***************************************************************************)
\* C20: a PLFRAME whose decoded MODCOD is 0 (a dummy PLFRAME) gets no
\* XFECFRAME tag and none of its symbols reaches the output, while the
\* PLFRAMEs before and after it are tagged on their first payload symbol.
C20_DummyNotForwarded ==
    /\ \A i \in 1..Len(pl_tags) : pl_tags[i].modcod # 0
    /\ pl_scn.kind = "dummy"
       => LET t == get_test_plframe(pl_scn.pilots)
          IN  /\ \A i \in 1..Len(pl_out) : pl_out[i].frame # 1
              /\ PLDone
                 => /\ Len(pl_tags) = pl_scn.n
                    /\ \A k \in 0..(pl_scn.n - 1) :
                         pl_tags[k + 1] = [offset |-> k * t[4] * SLOT_LEN,
                                           modcod |-> t[2], short_frame |-> t[3]]
                    /\ pl_out = PayloadOfFrames(t[1], 0, 1)
                                \o PayloadOfFrames(t[1], 2, pl_scn.n + 1)
                    /\ pl_nout = pl_scn.n * t[4] * SLOT_LEN

\* C20 witness: a dummy PLFRAME between two PLFRAMEs with pilots was taken
\* while LOCKED; the two PLFRAMEs around it are tagged at 0 and 4050
C20_Witness ==
    /\ PLDone
    /\ pl_scn.kind = "dummy"
    /\ pl_scn.n = 2
    /\ pl_scn.pilots
    /\ pl_sofs = 4
    /\ pl_state = "locked"
    /\ Len(pl_out) = 90
    /\ pl_tags = <<[offset |-> 0, modcod |-> 21, short_frame |-> TRUE],
                   [offset |-> 4050, modcod |-> 21, short_frame |-> TRUE]>>

(***************************************************************************)
(* Claims on the PLS filter                                                *)
(***************************************************************************)
\* the PLS of PLFRAME k of a stream of two PLS
VcmFramePls(sc, k) == (21 * 4) + 2 + (IF vcm_pilots(sc.pilots, k) THEN 1 ELSE 0)

\* whether the filter was asked to accept PLFRAME k
VcmAccepted(sc, k) == VcmFramePls(sc, k) \in SeqToSet(sc.accept)

\* the number of accepted PLFRAMEs before PLFRAME k
VcmAcceptedBelow(sc, k) == Cardinality({j \in 0..(k - 1) : VcmAccepted(sc, j)})

\* C21: a PLFRAME whose PLS has its bit cleared in the 128-bit filter is
\* neither tagged nor output although its PLHEADER is detected, and a
\* PLFRAME whose bit is set is tagged and output once LOCKED.
C21_MaskedPlsIgnored ==
    pl_scn.kind = "vcm"
    => /\ \A i \in 1..Len(pl_out) : VcmAccepted(pl_scn, pl_out[i].frame)
       /\ Len(pl_tags) = VcmAcceptedBelow(pl_scn, IF pl_sofs = 0 THEN 0 ELSE pl_sofs - 1)
       /\ \A k \in 0..(pl_scn.n - 1) :
            (pl_sofs >= k + 2 /\ VcmAccepted(pl_scn, k))
            => LET a == VcmAcceptedBelow(pl_scn, k)
               IN  /\ HoldsFrameAt((a * 45) + 1, k, 45)
                   /\ pl_tags[a + 1] = [offset |-> a * 4050, modcod |-> 21,
                                        short_frame |-> TRUE]
       /\ pl_nout = Len(pl_tags) * 4050
       /\ PLDone => (pl_sofs = pl_scn.n + 1 /\ pl_state = "locked")

\* C21 witness: of three PLFRAMEs, the second one has a PLS (87) the filter
\* built by pls_filter(86) masks out: its PLHEADER was detected and the
\* PLFRAMEs around it are the only ones output
C21_Witness ==
    /\ PLDone
    /\ pl_scn.kind = "vcm"
    /\ pl_scn.n = 3
    /\ ~pl_scn.pilots
    /\ pl_scn.accept = <<86>>
    /\ pl_sofs = 4
    /\ Len(pl_out) = 90
    /\ pl_out[46].frame = 2
    /\ pl_tags = <<[offset |-> 0, modcod |-> 21, short_frame |-> TRUE],
                   [offset |-> 4050, modcod |-> 21, short_frame |-> TRUE]>>


(***************************************************************************)
(* The order of the frequency synchronizer's states.                       *)
(***************************************************************************)
FreqRank(fstate) ==
    CASE fstate = "uncorrected" -> 0
      [] fstate = "coarse_corrected" -> 1
      [] fstate = "fine_tracking" -> 2

LockLost == pl_state # "searching" /\ pl_state' = "searching"

CommandSent == pl_cmd_log' # pl_cmd_log

ClosedLoopRun == pl_scn.kind \in {"frames", "cut"} /\ pl_scn.closed_loop /\ pl_scn.fe # 0

\* the command sent was taken by the rotator
CommandInEffect == pl_cmd_log # <<>> /\ rot_cmd = <<>>

\* C25: at whatever symbol of the PLFRAME that follows the command the
\* rotator takes it, the start of the next PLFRAME at the latest, the loop
\* converges: one command is sent and it carries the whole offset (the offset
\* is not corrected a second time), and once the command is in effect nothing
\* of the offset is left on the symbols and the offset reported, the
\* correction seen plus the estimate, is the true offset.
C25_LateCommandConverges ==
    ClosedLoopRun
    => /\ Len(pl_cmd_log) <= 1
       /\ \A i \in 1..Len(pl_cmd_log) : pl_cmd_log[i].inc = pl_scn.fe
       /\ CommandInEffect
          => /\ rot_inc = pl_scn.fe
             /\ residual_offset(pl_scn.fe, rot_inc) = 0
             /\ get_freq_offset = pl_scn.fe
       /\ (rot_tag # <<>>) => rot_tag[2] <= pls_plframe_len(pl_pls)

\* C25 witness: the rotator took the command in the middle of the payload
\* that follows the locking PLHEADER, and the offset reads -0.24
C25_Witness ==
    /\ ClosedLoopRun
    /\ pl_scn.fe = -24
    /\ CommandInEffect
    /\ rot_tag # <<>>
    /\ rot_tag[1] = -24
    /\ rot_tag[2] > PLHEADER_LEN
    /\ rot_tag[2] < pls_plframe_len(pl_pls)
    /\ pl_pos > rot_tag[2]
    /\ get_freq_offset = -24

(***************************************************************************)
(* Symbol Timing Synchronizer (symbol_sync_cc) driven by the streams of    *)
(* python/dvbs2rx/qa_symbol_sync_cc.py.                                     *)
(*                                                                         *)
(* Samples are pairs <<re, im>> of integers (amplitudes in halves, so that *)
(* 2.5 is 5). Time and the loop quantities are in ticks: one input sample  *)
(* period is TICKS ticks, so the modulo-1 counter runs over 0..TICKS.      *)
(***************************************************************************)
VARIABLES
    ss_scn,      \* the stream and the parameters under test
    ss_in,       \* input samples
    ss_intags,   \* offsets of the tagged input samples
    ss_n,        \* number of input samples consumed
    ss_cnt,      \* modulo-1 counter
    ss_strobe,   \* an interpolant is due at the basepoint consumed last
    ss_mu,       \* fractional interval of the due interpolant
    ss_vi,       \* integrator of the PI filter (accumulated error)
    ss_out,      \* output interpolants: [re, im, t], t the instant in ticks
    ss_outtags,  \* output tags: [in |-> input offset, out |-> output offset]
    ss_done      \* the input has ended and the last tags were placed

MaxSyms == 5        \* largest number of symbols in a generated stream

TICKS == 64

K1_DIV == 32        \* proportional gain: 1 / K1_DIV ticks per unit of error

K2_DIV == 128       \* integrator gain: 1 / K2_DIV ticks per unit of error

\* test_open_loop: x_syms = [1.0, -1.0, 3.0, -2.0, 2.0, -2.5, 1.5], in halves
open_loop_syms ==
    << <<2, 0>>, <<-2, 0>>, <<6, 0>>, <<-4, 0>>, <<4, 0>>, <<-5, 0>>, <<3, 0>> >>

\* randQpskSyms: symbols of the constellation (+-1 +-1j), one fixed draw
qpsk_syms ==
    << <<-2, 2>>, <<2, 2>>, <<2, -2>>, <<-2, -2>>, <<2, 2>>, <<-2, 2>>, <<2, -2>> >>

\* the upsampling of test_open_loop: x_up[sps * i] = x_syms[i], zeros elsewhere
upsample(x_syms, sps) ==
    [j \in 1..(Len(x_syms) * sps) |->
        IF (j - 1) % sps = 0 THEN x_syms[((j - 1) \div sps) + 1] ELSE <<0, 0>>]

\* a stream with no zero sample (a matched-filter output stands in for it)
dense_stream(len) ==
    [j \in 1..len |-> <<((j * 3) % 7) - 3, ((j * 5) % 9) - 4>>]

SsSpsArgs == {2, 4}

SsDampingArgs == {0, 1}

SsTagPeriodArgs == {0, 3, 4}    \* 0: no tagger in the flowgraph

SsKinds == {"open_loop_syms", "qpsk_syms", "dense"}

SsScenarios ==
    [kind : SsKinds, sps : SsSpsArgs, damping : SsDampingArgs,
     nsyms : 2..MaxSyms, tag_period : SsTagPeriodArgs]

ss_stream(scn) ==
    CASE scn.kind = "open_loop_syms" ->
            upsample(SubSeq(open_loop_syms, 1, scn.nsyms), scn.sps)
      [] scn.kind = "qpsk_syms" ->
            upsample(SubSeq(qpsk_syms, 1, scn.nsyms), scn.sps)
      [] scn.kind = "dense" -> dense_stream(scn.nsyms * scn.sps)

\* stream_to_tagged_stream: a tag on every tag_period-th sample, from sample 0
ss_tagger(len, tag_period) ==
    IF tag_period = 0 THEN {}
    ELSE {n \in 0..(len - 1) : n % tag_period = 0}

InitSS ==
    /\ ss_scn \in SsScenarios
    /\ ss_in = ss_stream(ss_scn)
    /\ ss_intags = ss_tagger(Len(ss_in), ss_scn.tag_period)
    /\ ss_n = 0
    /\ ss_cnt = TICKS
    /\ ss_strobe = FALSE
    /\ ss_mu = 0
    /\ ss_vi = 0
    /\ ss_out = <<>>
    /\ ss_outtags = {}
    /\ ss_done = FALSE

\* the loop is open when damping is 0: K1 = K2 = 0
ss_open_loop_never(damping) == FALSE

ss_open_loop(damping) == damping = 0

\* linear interpolator: x[m] + mu * (x[m + 1] - x[m]), m a 0-based basepoint
ss_interp(x, m, mu) ==
    << x[m + 1][1] + ((mu * (x[m + 2][1] - x[m + 1][1])) \div TICKS),
       x[m + 1][2] + ((mu * (x[m + 2][2] - x[m + 1][2])) \div TICKS) >>

\* Gardner timing error from the previous interpolant, the midway (zero
\* crossing) interpolant and the current one
ss_gted(prev, zc, cur) ==
    (zc[1] * (prev[1] - cur[1])) + (zc[2] * (prev[2] - cur[2]))

\* the output offset an input tag at sample n leaves on, once the interpolant
\* at instant t_new (offset k_new) follows the one at t_old (offset k_new - 1):
\* the nearer of the two, the earlier one when equidistant
ss_tag_target_later(n, t_old, t_new, k_new) ==
    IF (n * TICKS) - t_old < t_new - (n * TICKS) THEN k_new - 1 ELSE k_new

ss_tag_target(n, t_old, t_new, k_new) ==
    IF (n * TICKS) - t_old <= t_new - (n * TICKS) THEN k_new - 1 ELSE k_new

\* tags not yet placed on the output
ss_pending_tags == {n \in ss_intags : \A tg \in ss_outtags : tg.in # n}

\* the synchronizer consumes one input sample
SSWork ==
    /\ ss_n < Len(ss_in)
    /\ LET m == ss_n - 1
           k == Len(ss_out)
           xI == ss_interp(ss_in, m, ss_mu)
           t == (m * TICKS) + ss_mu
           half == ss_scn.sps \div 2
           zc == ss_interp(ss_in, m - half, ss_mu)
           e == IF ss_strobe /\ k > 0 /\ ~ss_open_loop(ss_scn.damping)
                THEN ss_gted(<<ss_out[k].re, ss_out[k].im>>, zc, xI) ELSE 0
           vi == ss_vi + e
           v == (e \div K1_DIV) + (vi \div K2_DIV)
           W == (TICKS \div ss_scn.sps) + v
           strobe == ss_cnt < W
           due == {n \in ss_pending_tags : n * TICKS <= t}
       IN  /\ IF ss_strobe
              THEN /\ ss_out' = Append(ss_out, [re |-> xI[1], im |-> xI[2], t |-> t])
                   /\ ss_outtags' = ss_outtags \cup
                        {[in |-> n,
                          out |-> IF k = 0 THEN 0
                                  ELSE ss_tag_target(n, ss_out[k].t, t, k)] : n \in due}
              ELSE UNCHANGED <<ss_out, ss_outtags>>
           /\ ss_vi' = vi
           /\ ss_strobe' = strobe
           /\ ss_mu' = IF strobe THEN (ss_cnt * TICKS) \div W ELSE ss_mu
           /\ ss_cnt' = (ss_cnt - W) % TICKS
           /\ ss_n' = ss_n + 1
    /\ UNCHANGED <<ss_scn, ss_in, ss_intags, ss_done>>

\* the input has ended: the tags after the last interpolant leave on it
SSFinish ==
    /\ ss_n = Len(ss_in)
    /\ ~ss_done
    /\ ss_done' = TRUE
    /\ ss_outtags' = ss_outtags \cup
            (IF Len(ss_out) = 0 THEN {}
             ELSE {[in |-> n, out |-> Len(ss_out) - 1] : n \in ss_pending_tags})
    /\ UNCHANGED <<ss_scn, ss_in, ss_intags, ss_n, ss_cnt, ss_strobe, ss_mu, ss_vi,
                   ss_out>>

ss_vars == <<ss_scn, ss_in, ss_intags, ss_n, ss_cnt, ss_strobe, ss_mu, ss_vi,
             ss_out, ss_outtags, ss_done>>

(***************************************************************************)
(* Claims on the Symbol Timing Synchronizer                                *)
(***************************************************************************)

\* the interpolants as samples
SsOutSamples == [k \in 1..Len(ss_out) |-> <<ss_out[k].re, ss_out[k].im>>]

\* the symbols a stream was built from by zero-stuffing
SsSymbols ==
    IF ss_scn.kind = "open_loop_syms" THEN SubSeq(open_loop_syms, 1, ss_scn.nsyms)
    ELSE SubSeq(qpsk_syms, 1, ss_scn.nsyms)

\* C16: with the damping factor set to 0 (K1 = K2 = 0) and an integer sps, the
\* symbol timing synchronizer is a fixed downsampler: it outputs exactly one
\* input sample, unchanged, per sps input samples (the k-th output is input
\* sample k * sps, k = 1, 2, ...), and for an input built by zero-stuffing the
\* symbols x[0..n-1] by sps the output is x[1..n-1], the first symbol period
\* being consumed at startup.
C16_OpenLoopDownsampler ==
    (ss_scn.nsyms > 0 /\ ss_scn.damping = 0)
    => /\ Len(ss_out) = (IF ss_n < 2 THEN 0 ELSE (ss_n - 2) \div ss_scn.sps)
       /\ \A k \in 1..Len(ss_out) :
            /\ SsOutSamples[k] = ss_in[(k * ss_scn.sps) + 1]
            /\ ss_out[k].t = k * ss_scn.sps * TICKS
       /\ (ss_done /\ ss_scn.kind \in {"open_loop_syms", "qpsk_syms"})
          => SsOutSamples = SubSeq(SsSymbols, 2, ss_scn.nsyms)

\* C16 witness: the stream of test_open_loop cut to 5 symbols, sps = 2 and
\* damping = 0, has been processed and left the symbols -1, 3, -2, 2
C16_Witness ==
    /\ ss_done
    /\ ss_scn.kind = "open_loop_syms"
    /\ ss_scn.sps = 2
    /\ ss_scn.damping = 0
    /\ ss_scn.nsyms = 5
    /\ SsOutSamples = << <<-2, 0>>, <<6, 0>>, <<-4, 0>>, <<4, 0>> >>

SsAbs(a) == IF a < 0 THEN -a ELSE a

\* output offset k (0-based) is the interpolant nearest in time to input
\* sample n, the earliest one among equidistant ones
SsNearest(n, k) ==
    \A j \in 0..(Len(ss_out) - 1) :
        LET dk == SsAbs(ss_out[k + 1].t - (n * TICKS))
            dj == SsAbs(ss_out[j + 1].t - (n * TICKS))
        IN  dk < dj \/ (dk = dj /\ k <= j)

\* C17: every tag on the input leaves on the output interpolant nearest in
\* time to the tagged input sample and none is dropped (once the stream has
\* ended and gave at least one interpolant); a tag midway between two
\* interpolants goes to the earlier one, a tag on a sample consumed during
\* startup leaves on the first interpolant, and no other tag appears. With
\* sps = 2, damping = 0 and a tag every 4 input samples the output tags are at
\* offsets 0, 1, 3, 5, ...
C17_TagsNearest ==
    /\ \A tg \in ss_outtags :
        /\ tg.in \in ss_intags
        /\ tg.out \in 0..(Len(ss_out) - 1)
        /\ \A tg2 \in ss_outtags : tg2.in = tg.in => tg2 = tg
    /\ (ss_done /\ Len(ss_out) > 0)
       => /\ \A n \in ss_intags :
                \E tg \in ss_outtags : tg.in = n /\ SsNearest(n, tg.out)
          /\ (ss_scn.sps = 2 /\ ss_scn.damping = 0 /\ ss_scn.tag_period = 4)
             => {tg.out : tg \in ss_outtags} =
                    {0} \cup {k \in 1..(Len(ss_out) - 1) : k % 2 = 1}

\* C17 witness: 5 symbols at sps = 2, damping = 0, a tag every 3 samples: the
\* tag of sample 0 (startup) and the tag of sample 3 (midway between the
\* interpolants of samples 2 and 4) left at offset 0, the tag of sample 6 at
\* offset 2 and the tag of sample 9 at the last interpolant
C17_Witness ==
    /\ ss_done
    /\ ss_scn.sps = 2
    /\ ss_scn.damping = 0
    /\ ss_scn.nsyms = 5
    /\ ss_scn.tag_period = 3
    /\ ss_outtags = {[in |-> 0, out |-> 0], [in |-> 3, out |-> 0],
                     [in |-> 6, out |-> 2], [in |-> 9, out |-> 3]}

(***************************************************************************)
(* Specifications                                                          *)
(***************************************************************************)
vars == <<call, ret, bb_scn, up_stream, bb_in, bb_synced, bb_packet, bb_pending,
          bb_out, bb_discarded, pl_scn, pl_filter, pl_in, pl_state, pl_pls, pl_pos, pl_buf,
          pl_nbuf, pl_sofs, pl_out, pl_nout, pl_tags, pl_fstate, pl_est, pl_rot_cur,
          pl_cmd_log, rot_cmd, rot_inc, rot_tag, ss_scn, ss_in, ss_intags,
          ss_n, ss_cnt, ss_strobe, ss_mu, ss_vi, ss_out, ss_outtags, ss_done>>

\* the Deheader before any stream is given to it
IdleBB ==
    /\ bb_scn = [kind |-> "clean", n |-> 0, f |-> 0, seed |-> 0]
    /\ up_stream = <<>>
    /\ bb_in = <<>>
    /\ bb_synced = FALSE
    /\ bb_packet = <<>>
    /\ bb_pending = <<>>
    /\ bb_out = <<>>
    /\ bb_discarded = 0

\* the PL Frame Synchronizer before any stream is given to it
IdlePL ==
    /\ pl_scn = [kind |-> "noise", n |-> 0, delay |-> 0, pilots |-> FALSE, fe |-> 0,
                 closed_loop |-> FALSE, accept |-> <<>>]
    /\ pl_filter = run_flowgraph_pls_filter
    /\ pl_in = <<>>
    /\ pl_state = "searching"
    /\ pl_pls = 0
    /\ pl_pos = 0
    /\ pl_buf = <<>>
    /\ pl_nbuf = 0
    /\ pl_sofs = 0
    /\ pl_out = <<>>
    /\ pl_nout = 0
    /\ pl_tags = <<>>
    /\ pl_fstate = "uncorrected"
    /\ pl_est = 0
    /\ pl_rot_cur = 0
    /\ pl_cmd_log = <<>>
    /\ rot_cmd = <<>>
    /\ rot_inc = 0
    /\ rot_tag = <<>>

\* the Symbol Timing Synchronizer before any stream is given to it
IdleSS ==
    /\ ss_scn = [kind |-> "dense", sps |-> 2, damping |-> 0, nsyms |-> 0,
                 tag_period |-> 0]
    /\ ss_in = <<>>
    /\ ss_intags = {}
    /\ ss_n = 0
    /\ ss_cnt = TICKS
    /\ ss_strobe = FALSE
    /\ ss_mu = 0
    /\ ss_vi = 0
    /\ ss_out = <<>>
    /\ ss_outtags = {}
    /\ ss_done = TRUE

NextParams ==
    \/ CallDvbs2Pls /\ UNCHANGED <<bb_vars, pl_vars, ss_vars>>
    \/ CallPlInfo /\ UNCHANGED <<bb_vars, pl_vars, ss_vars>>
    \/ TakeResult /\ UNCHANGED <<bb_vars, pl_vars, ss_vars>>

InitSpecParams == InitParams /\ IdleBB /\ IdlePL /\ IdleSS

SpecParams == InitSpecParams /\ [][NextParams]_vars

NextFilter ==
    \/ CallPlsFilter /\ UNCHANGED <<bb_vars, pl_vars, ss_vars>>
    \/ TakeResult /\ UNCHANGED <<bb_vars, pl_vars, ss_vars>>

SpecFilter == InitSpecParams /\ [][NextFilter]_vars

NextValidate ==
    \/ CallValidate /\ UNCHANGED <<bb_vars, pl_vars, ss_vars>>
    \/ CallTranslate /\ UNCHANGED <<bb_vars, pl_vars, ss_vars>>
    \/ TakeResult /\ UNCHANGED <<bb_vars, pl_vars, ss_vars>>

SpecValidate == InitSpecParams /\ [][NextValidate]_vars

NextVlSnr ==
    \/ CallValidateVlSnr /\ UNCHANGED <<bb_vars, pl_vars, ss_vars>>
    \/ CallTranslateVlSnr /\ UNCHANGED <<bb_vars, pl_vars, ss_vars>>
    \/ TakeResult /\ UNCHANGED <<bb_vars, pl_vars, ss_vars>>

SpecVlSnr == InitSpecParams /\ [][NextVlSnr]_vars

NextBB ==
    \/ BBFrameDiscard /\ UNCHANGED <<params_vars, pl_vars, ss_vars>>
    \/ BBFrameDeframe /\ UNCHANGED <<params_vars, pl_vars, ss_vars>>

InitSpecBB == InitBB /\ InitParams /\ IdlePL /\ IdleSS

SpecBB == InitSpecBB /\ [][NextBB]_vars

NextPL ==
    \/ PLSearchSkip /\ UNCHANGED <<params_vars, bb_vars, ss_vars>>
    \/ PLSofFound /\ UNCHANGED <<params_vars, bb_vars, ss_vars>>
    \/ PLPayload /\ UNCHANGED <<params_vars, bb_vars, ss_vars>>
    \/ PLSofLock /\ UNCHANGED <<params_vars, bb_vars, ss_vars>>
    \/ PLMiss /\ UNCHANGED <<params_vars, bb_vars, ss_vars>>
    \/ RotatorCmd /\ UNCHANGED <<params_vars, bb_vars, ss_vars>>

InitSpecPL == InitPL /\ InitParams /\ IdleBB /\ IdleSS

SpecPL == InitSpecPL /\ [][NextPL]_vars

NextSS ==
    \/ SSWork /\ UNCHANGED <<params_vars, bb_vars, pl_vars>>
    \/ SSFinish /\ UNCHANGED <<params_vars, bb_vars, pl_vars>>

InitSpecSS == InitSS /\ InitParams /\ IdleBB /\ IdlePL

SpecSS == InitSpecSS /\ [][NextSS]_vars

====
